---- MODULE Spec2Model ----
(***************************************************************************)
(* The request-handling pipeline of the translator gateway: origin guard,  *)
(* per-IP token bucket, request validation, text normalisation, upstream   *)
(* orchestration (timeout, retry, model chain) and response normalisation. *)
(* The repository holds several variants of the same Pages Function; one   *)
(* variant is deployed at a time (variable `variant`).                     *)
(***************************************************************************)
EXTENDS Integers, Sequences, FiniteSets, TLC

VARIABLES
    variant,    \* which file of the repository is deployed
    now,        \* Date.now(), in ms
    ipBuckets,  \* part_000: the process-wide Map ip -> bucket
    req,        \* the request being handled (NoReq before the first one)
    pc,         \* position of the handler: "idle", "fetch", "backoff", "fallback",
                \* "body" (awaiting the upstream body), "done", and "cut"
                \* (MaxCalls reached: the request is followed no further)
    attempt,    \* callGemini: the loop variable `attempt`
    midx,       \* part_004: index in MODELS of the model being tried
    hist,       \* upstream calls of this request that have ended: <<[model, out]>>
    inflight,   \* model of the upstream call in flight, or "none"
    resp,       \* the response returned to the client (NoResp while handling)
    burst,      \* history, per ip: [n, rej]: n admissions since the bucket was
                \* created while no refill has happened yet (-1 once one has);
                \* rej: a request was rejected since the last admission
    lim,        \* history: what the limiter saw for the current request
    given,      \* sanitizeUserText on its own: the string it is first given
    clean,      \* sanitizeUserText on its own: its successive results
    tasks,      \* part_000, concurrent requests: per task [pc, req, resp, admitted]
    served,     \* part_000, concurrent requests: per ip, the requests admitted
                \* and answered before the concurrent ones arrived
    timers,     \* timeout timers armed by the current request that have neither
                \* been cleared nor fired
    admits,     \* history: [on, at]; while on, at[ip][t] is the number of calls
                \* rateLimit(ip) that returned true at time t
    stale       \* history: what the timers of ended attempts have done to this
                \* request when they fired during a later fetch: "none" (none
                \* has fired), "spared" or "cancelled" (the fetch in flight)

vars == <<variant, now, ipBuckets, req, pc, attempt, midx, hist, inflight, resp,
          burst, lim, given, clean, tasks, served, timers, admits, stale>>

(***************************************************************************)
(* Bounds of the model.                                                    *)
(***************************************************************************)
\* the clock takes the values 0 .. MaxTicks * TickMs
MaxTicks == 3
\* upstream calls of one request the model follows
MaxCalls == 4
\* runs of one class in a string given to sanitizeUserText on its own
MaxRuns == 3
\* characters in one such run
MaxRunLen == 2
\* requests handled concurrently
MaxTasks == 3

(***************************************************************************)
(* Strings of the request text.  A text is a sequence of runs [c, n]: n     *)
(* characters (UTF-16 code units) of class c, adjacent runs of different    *)
(* classes.  Classes:                                                       *)
(*   "L" a letter, e.g. a         "N" a digit          "P" punctuation      *)
(*   "Z" the space U+0020 (Zs)    "S" a symbol, e.g. $ (category Sc)        *)
(*   "C" the line feed U+000A (Cc, a LineTerminator)                        *)
(*   "X" the ligature U+FB01, whose NFKC form is the two letters f i        *)
(***************************************************************************)
Run(c, n) == [c |-> c, n |-> n]

RECURSIVE Length(_)
Length(s) ==
    IF s = <<>> THEN 0 ELSE Head(s).n + Length(Tail(s))

\* Adjacent runs of one class are one run; empty runs vanish.
RECURSIVE Canon(_)
Canon(s) ==
    IF s = <<>> THEN <<>>
    ELSE IF Head(s).n = 0 THEN Canon(Tail(s))
    ELSE LET rest == Canon(Tail(s))
         IN  IF rest # <<>> /\ Head(rest).c = Head(s).c
             THEN <<Run(Head(s).c, Head(s).n + Head(rest).n)>> \o Tail(rest)
             ELSE <<Head(s)>> \o rest

\* String.prototype.normalize("NFKC"): U+FB01 becomes "fi"; the other classes
\* are already in NFKC form.
NFKC(s) ==
    Canon([i \in 1..Len(s) |->
        IF s[i].c = "X" THEN Run("L", 2 * s[i].n) ELSE s[i]])

\* .replace(/[^\p{L}\p{N}\p{P}\p{Zs}]/gu, " ")
ReplaceUnsafe(s) ==
    Canon([i \in 1..Len(s) |->
        IF s[i].c \in {"L", "N", "P", "Z", "X"} THEN s[i] ELSE Run("Z", s[i].n)])

\* String.prototype.trim(): white space and line terminators at both ends.
IsWhite(c) == c \in {"Z", "C"}

RECURSIVE TrimStart(_)
TrimStart(s) ==
    IF s # <<>> /\ IsWhite(Head(s).c) THEN TrimStart(Tail(s)) ELSE s

RECURSIVE TrimEnd(_)
TrimEnd(s) ==
    IF s # <<>> /\ IsWhite(s[Len(s)].c) THEN TrimEnd(SubSeq(s, 1, Len(s) - 1)) ELSE s

Trim(s) == TrimEnd(TrimStart(s))

(***************************************************************************)
(* JavaScript values.  [t, truthy, str]: the typeof-like tag, the value's   *)
(* truthiness and its String() conversion.  In a request body `str` is a    *)
(* run-encoded text; in an upstream payload it is a TLA+ string.            *)
(***************************************************************************)
Truthy(x) == x.truthy

\* values of the `text` member of a request body
TUndef == [t |-> "undefined", truthy |-> FALSE, str |-> <<Run("L", 9)>>]
TNull == [t |-> "null", truthy |-> FALSE, str |-> <<Run("L", 4)>>]
TStr(s) == [t |-> "string", truthy |-> (s # <<>>), str |-> s]
TNum5 == [t |-> "number", truthy |-> TRUE, str |-> <<Run("N", 1)>>]
TNum0 == [t |-> "number", truthy |-> FALSE, str |-> <<Run("N", 1)>>]
TTrue == [t |-> "boolean", truthy |-> TRUE, str |-> <<Run("L", 4)>>]
TFalse == [t |-> "boolean", truthy |-> FALSE, str |-> <<Run("L", 5)>>]
\* {} : "[object Object]"
TObj == [t |-> "object", truthy |-> TRUE,
         str |-> <<Run("P", 1), Run("L", 6), Run("Z", 1), Run("L", 6), Run("P", 1)>>]
\* [] : ""
TArr == [t |-> "array", truthy |-> TRUE, str |-> <<>>]

\* x ?? d
Nullish(x) == x.t \in {"undefined", "null"}
Coalesce(x, d) == IF Nullish(x) THEN d ELSE x

(***************************************************************************)
(* Header strings.  An origin or host is [scheme, sub, base, port]: the     *)
(* string  scheme "://" sub base port, where sub is "" or a label followed  *)
(* by a dot and base is the rest of the host name.  A header is             *)
(* [present, val]; Headers.get() of an absent header is null.               *)
(***************************************************************************)
Url(scheme, sub, base, port) ==
    [scheme |-> scheme, sub |-> sub, base |-> base, port |-> port]

EmptyStr == Url("", "", "", "")
Star == Url("*", "", "", "")

NoHeader == [present |-> FALSE, val |-> EmptyStr]
Header(v) == [present |-> TRUE, val |-> v]

\* request.headers.get(name) || ""
GetOrEmpty(h) == IF h.present THEN h.val ELSE EmptyStr

ProdOrigin == Url("https", "", "translator-v2-0.pages.dev", "")
VmOrigin == Url("https", "", "translator-vm.pages.dev", "")
LocalOrigin == Url("http", "", "localhost", ":8788")
PreviewOrigin == Url("https", "preview.", "translator-v2-0.pages.dev", "")
EvilOrigin == Url("https", "", "evil.example", "")
OwnHost == Url("", "", "gateway.example", "")
OwnOrigin == Url("https", "", "gateway.example", "")

\* `https://${host}`
HttpsOf(host) == Url("https", host.sub, host.base, host.port)

\* /\.translator-v2-0\.pages\.dev$/.test(s), s.endsWith(".translator-v2-0.pages.dev")
EndsWithProdSuffix(s) ==
    s.port = "" /\ s.base = "translator-v2-0.pages.dev" /\ s.sub # ""

(***************************************************************************)
(* part_000: configuration                                                 *)
(***************************************************************************)
ORIGIN_ALLOW == {VmOrigin, ProdOrigin, LocalOrigin}
MAX_CHARS == 2000
RATE_LIMIT_capacity == 20
RATE_LIMIT_refillPerMinute == 12
MsPerMinute == 60000

TickMs == 2500
LongMs == 120000
Times == {k * TickMs : k \in 0..MaxTicks} \cup {LongMs}

DefaultIp == "0.0.0.0"
ClientIp == "203.0.113.7"
IPs == {DefaultIp, ClientIp}

(***************************************************************************)
(* Responses.  A body is [kind, code, inputLanguage, improved, translation, *)
(* detail]: kind "error" with an error code, kind "result" with the three   *)
(* members (JavaScript values, PUndef when the member is absent), kind      *)
(* "none" for an empty body, kind "value" for a JSON value that is no       *)
(* object.  detail is what an error body carries besides its code:          *)
(* [what, status, errcode, jsonok], what "none", "message" (the message of  *)
(* a rejected fetch), "status" (the upstream's status) or "reply" (the      *)
(* upstream's status and its body, which the model knows by errcode and     *)
(* jsonok).                                                                 *)
(***************************************************************************)
Detail(what, status, errcode, jsonok) ==
    [what |-> what, status |-> status, errcode |-> errcode, jsonok |-> jsonok]

NoDetail == Detail("none", 0, 0, FALSE)

PUndef == [t |-> "undefined", truthy |-> FALSE, str |-> "undefined"]
PNull == [t |-> "null", truthy |-> FALSE, str |-> "null"]
PStr(s) == [t |-> "string", truthy |-> (s # ""), str |-> s]
PNum5 == [t |-> "number", truthy |-> TRUE, str |-> "5"]
PNum0 == [t |-> "number", truthy |-> FALSE, str |-> "0"]
PTrue == [t |-> "boolean", truthy |-> TRUE, str |-> "true"]
PObj == [t |-> "object", truthy |-> TRUE, str |-> "[object Object]"]

ErrorBodyWith(code, detail) ==
    [kind |-> "error", code |-> code,
     inputLanguage |-> PUndef, improved |-> PUndef, translation |-> PUndef,
     detail |-> detail]

ErrorBody(code) == ErrorBodyWith(code, NoDetail)

ResultBody(il, im, tr) ==
    [kind |-> "result", code |-> "",
     inputLanguage |-> il, improved |-> im, translation |-> tr, detail |-> NoDetail]

NoBody == [kind |-> "none", code |-> "",
           inputLanguage |-> PUndef, improved |-> PUndef, translation |-> PUndef,
           detail |-> NoDetail]

Response(status, body, acao) == [status |-> status, body |-> body, acao |-> acao]

NoResp == Response(0, NoBody, NoHeader)

(***************************************************************************)
(* part_000: utilities                                                     *)
(***************************************************************************)
\* getClientIp: CF-Connecting-IP || first of x-forwarded-for, trimmed || "0.0.0.0"
getClientIp(r) ==
    IF r.cf # "" THEN r.cf
    ELSE IF r.xff # <<>> /\ Head(r.xff) # "" THEN Head(r.xff)
    ELSE DefaultIp

NoBucket == [present |-> FALSE, tokens |-> 0, lastRefillMs |-> 0]
Bucket(tokens, last) == [present |-> TRUE, tokens |-> tokens, lastRefillMs |-> last]

Min(a, b) == IF a < b THEN a ELSE b

\* Math.floor(((now - lastRefillMs) / 60_000) * refillPerMinute)
RefillOf(b, t) == ((t - b.lastRefillMs) * RATE_LIMIT_refillPerMinute) \div MsPerMinute

\* a variation of Refilled: the refill is not capped at the capacity
Refilled_uncapped(buckets, ip, t) ==
    LET b0 == IF buckets[ip].present THEN buckets[ip]
              ELSE Bucket(RATE_LIMIT_capacity, t)
        refill == RefillOf(b0, t)
    IN  IF refill > 0 THEN Bucket(b0.tokens + refill, t) ELSE b0

\* a variation of Refilled: every call stamps lastRefillMs
Refilled_alwaysStamps(buckets, ip, t) ==
    LET b0 == IF buckets[ip].present THEN buckets[ip]
              ELSE Bucket(RATE_LIMIT_capacity, t)
        refill == RefillOf(b0, t)
    IN  IF refill > 0
        THEN Bucket(Min(RATE_LIMIT_capacity, b0.tokens + refill), t)
        ELSE Bucket(b0.tokens, t)

\* the bucket after the refill step (lines 61-71)
Refilled(buckets, ip, t) ==
    LET b0 == IF buckets[ip].present THEN buckets[ip]
              ELSE Bucket(RATE_LIMIT_capacity, t)
        refill == RefillOf(b0, t)
    IN  IF refill > 0
        THEN Bucket(Min(RATE_LIMIT_capacity, b0.tokens + refill), t)
        ELSE b0

\* a variant of Exhausted that still admits at zero tokens
Exhausted_belowZero(b) == b.tokens < 0

\* if (bucket.tokens <= 0) return false
Exhausted(b) == b.tokens <= 0

\* a variation of rateLimit: the bucket it writes back misses the decrement
rateLimit_lostUpdate(buckets, ip, t) ==
    LET b1 == Refilled(buckets, ip, t)
    IN  [ok |-> ~Exhausted(b1), buckets |-> [buckets EXCEPT ![ip] = b1]]

\* a variation of rateLimit: a rejected call consumes a token too
rateLimit_chargesRejected(buckets, ip, t) ==
    LET b1 == Refilled(buckets, ip, t)
    IN  [ok |-> ~Exhausted(b1),
         buckets |-> [buckets EXCEPT ![ip] = Bucket(b1.tokens - 1, b1.lastRefillMs)]]

\* a variation of rateLimit: one bucket serves every ip
rateLimit_oneBucket(buckets, ip, t) ==
    LET b1 == Refilled(buckets, ip, t)
        b2 == IF Exhausted(b1) THEN b1 ELSE Bucket(b1.tokens - 1, b1.lastRefillMs)
    IN  [ok |-> ~Exhausted(b1), buckets |-> [i \in DOMAIN buckets |-> b2]]

\* rateLimit(ip) at time t: [ok, buckets]
rateLimit(buckets, ip, t) ==
    LET b1 == Refilled(buckets, ip, t)
    IN  IF Exhausted(b1)
        THEN [ok |-> FALSE, buckets |-> [buckets EXCEPT ![ip] = b1]]
        ELSE [ok |-> TRUE,
              buckets |-> [buckets EXCEPT ![ip] = Bucket(b1.tokens - 1, b1.lastRefillMs)]]

\* a variant of corsCheckAndHeaders that only withholds the header
corsCheckAndHeaders_headerOnly(r) ==
    LET origin == GetOrEmpty(r.origin)
    IN  [ok |-> TRUE,
         acao |-> IF origin \in ORIGIN_ALLOW THEN Header(origin) ELSE NoHeader]

\* corsCheckAndHeaders: [ok, acao]
corsCheckAndHeaders(r) ==
    LET origin == GetOrEmpty(r.origin)
    IN  IF origin = EmptyStr THEN [ok |-> TRUE, acao |-> NoHeader]
        ELSE IF origin \notin ORIGIN_ALLOW THEN [ok |-> FALSE, acao |-> NoHeader]
        ELSE [ok |-> TRUE, acao |-> Header(origin)]

\* sanitizeUserText, of a string
\* a variation of sanitizeUserText: it trims before it replaces
sanitizeUserText_trimFirst(raw) == ReplaceUnsafe(Trim(NFKC(raw)))

sanitizeUserText(raw) == Trim(ReplaceUnsafe(NFKC(raw)))

\* ct.toLowerCase().includes("application/json")
JsonContentTypes == {"application/json", "Application/JSON; charset=utf-8"}
DeclaresJson(ct) == ct \in JsonContentTypes

(***************************************************************************)
(* Requests.  [method, origin, host, cf, xff, ct, body, key, ai]: the Origin*)
(* and Host headers, CF-Connecting-IP ("" when absent), x-forwarded-for (a  *)
(* list, <<>> when absent), Content-Type, the body, whether                 *)
(* env.GEMINI_API_KEY is set and whether the binding env.AI exists.  A body is [kind, text]: kind "badjson" when  *)
(* request.json() throws, "null" for the JSON value null, "object" for an   *)
(* object whose member `text` is the JavaScript value text (TUndef: none).  *)
(***************************************************************************)
Request(method, origin, host, cf, xff, ct, body, key, ai) ==
    [method |-> method, origin |-> origin, host |-> host, cf |-> cf, xff |-> xff,
     ct |-> ct, body |-> body, key |-> key, ai |-> ai]

BadJsonBody == [kind |-> "badjson", text |-> TUndef, target |-> TUndef, source |-> TUndef]
NullBody == [kind |-> "null", text |-> TUndef, target |-> TUndef, source |-> TUndef]
ObjectBodyLang(text, target, source) ==
    [kind |-> "object", text |-> text, target |-> target, source |-> source]
ObjectBody(text) == ObjectBodyLang(text, TUndef, TUndef)

NoReq == Request("", NoHeader, NoHeader, "", <<>>, "", NullBody, FALSE, FALSE)

\* body?.text
TextOf(body) == IF body.kind = "object" THEN body.text ELSE TUndef

\* (body?.target ?? "vi").toLowerCase() and (body?.source ?? "auto").toLowerCase():
\* a value that is no string has no method toLowerCase, the call throws
LangThrows(body) ==
    \/ Coalesce(body.target, TStr(<<Run("L", 2)>>)).t # "string"
    \/ Coalesce(body.source, TStr(<<Run("L", 4)>>)).t # "string"

(***************************************************************************)
(* Upstream replies.  An outcome of one fetch is [kind, status, errcode,    *)
(* jsonok, txt, raw, val]: kind "neterr" (fetch rejects), "timeout" (the    *)
(* abort timer fired first) or "http" with the status, the numeric          *)
(* error.code of the body (0: none), whether the body is JSON, and the      *)
(* candidate text: txt "empty" (absent or ""), "bad" (not parseable, the    *)
(* string raw) or "json" (parses to val).  A parsed value is                *)
(* [kind, truthy, inputLanguage, improved, translation, err]; err: the      *)
(* value is an object with a truthy member `error`.                        *)
(***************************************************************************)
Parsed(kind, truthy, il, im, tr) ==
    [kind |-> kind, truthy |-> truthy,
     inputLanguage |-> il, improved |-> im, translation |-> tr, err |-> FALSE]

ParsedObject(il, im, tr) == Parsed("object", TRUE, il, im, tr)
ParsedNull == Parsed("null", FALSE, PUndef, PUndef, PUndef)
ParsedNumber == Parsed("number", TRUE, PUndef, PUndef, PUndef)
ParsedZero == Parsed("number", FALSE, PUndef, PUndef, PUndef)
WithError(val) == [val EXCEPT !.err = TRUE]

Outcome(kind, status, errcode, jsonok, txt, raw, val) ==
    [kind |-> kind, status |-> status, errcode |-> errcode, jsonok |-> jsonok,
     txt |-> txt, raw |-> raw, val |-> val]

NetErr == Outcome("neterr", 0, 0, FALSE, "empty", "", ParsedNull)
TimedOut == Outcome("timeout", 0, 0, FALSE, "empty", "", ParsedNull)
HttpError(status, errcode, jsonok) ==
    Outcome("http", status, errcode, jsonok, "empty", "", ParsedNull)
NotJsonBody == Outcome("http", 200, 0, FALSE, "empty", "", ParsedNull)
EmptyText == Outcome("http", 200, 0, TRUE, "empty", "", ParsedNull)
BadText == Outcome("http", 200, 0, TRUE, "bad", "not json", ParsedNull)
JsonText(val) == Outcome("http", 200, 0, TRUE, "json", "", val)

\* res.ok
Ok(out) == out.kind = "http" /\ out.status >= 200 /\ out.status <= 299

\* String(x || d)
StringOr(x, d) == IF Truthy(x) THEN PStr(x.str) ELSE PStr(d)

UncaughtBody == [kind |-> "uncaught", code |-> "",
                 inputLanguage |-> PUndef, improved |-> PUndef, translation |-> PUndef,
                 detail |-> NoDetail]
Uncaught == Response(0, UncaughtBody, NoHeader)

(***************************************************************************)
(* part_000: the handlers                                                  *)
(***************************************************************************)
onRequestOptions(r) ==
    LET cors == corsCheckAndHeaders(r)
    IN  IF ~cors.ok THEN Response(403, ErrorBody("CORS_DENIED"), NoHeader)
        ELSE Response(204, NoBody, cors.acao)

\* (body?.text ?? "").toString()
textRaw_part000(body) == Coalesce(TextOf(body), TStr(<<>>)).str

\* `text` of line 157, which line 180 embeds in the payload of the upstream call
payloadText_part000(body) == sanitizeUserText(textRaw_part000(body))

\* a variation of textChecks_part000: only the raw text is bounded
textChecks_part000_rawBound(body, acao) ==
    LET textRaw == textRaw_part000(body)
        text == sanitizeUserText(textRaw)
    IN  IF textRaw = <<>> THEN Response(400, ErrorBody("MISSING_TEXT"), acao)
        ELSE IF Length(textRaw) > MAX_CHARS * 2
        THEN Response(413, ErrorBody("TEXT_TOO_LONG"), acao)
        ELSE IF text = <<>> \/ Length(textRaw) > MAX_CHARS
        THEN Response(400, ErrorBody("INVALID_TEXT"), acao)
        ELSE NoResp

\* the text checks of lines 147-161: the error response, or NoResp
textChecks_part000(body, acao) ==
    LET textRaw == textRaw_part000(body)
        text == sanitizeUserText(textRaw)
    IN  IF textRaw = <<>> THEN Response(400, ErrorBody("MISSING_TEXT"), acao)
        ELSE IF Length(textRaw) > MAX_CHARS * 2
        THEN Response(413, ErrorBody("TEXT_TOO_LONG"), acao)
        ELSE IF text = <<>> \/ Length(text) > MAX_CHARS
        THEN Response(400, ErrorBody("INVALID_TEXT"), acao)
        ELSE NoResp

\* a variation of receive_part000: the limiter is called before the method
\* is checked
receive_part000_limiterFirst(r, buckets, t) ==
    LET cors == corsCheckAndHeaders(r)
        rl == rateLimit(buckets, getClientIp(r), t)
        early(rsp) == [resp |-> rsp, buckets |-> buckets, limited |-> FALSE]
        late(rsp) == [resp |-> rsp, buckets |-> rl.buckets, limited |-> TRUE]
    IN  IF ~cors.ok THEN early(Response(403, ErrorBody("CORS_DENIED"), NoHeader))
        ELSE IF ~rl.ok THEN late(Response(429, ErrorBody("RATE_LIMITED"), cors.acao))
        ELSE IF r.method # "POST"
        THEN late(Response(405, ErrorBody("METHOD_NOT_ALLOWED"), cors.acao))
        ELSE IF ~DeclaresJson(r.ct)
        THEN late(Response(415, ErrorBody("BAD_CONTENT_TYPE"), cors.acao))
        ELSE IF r.body.kind = "badjson"
        THEN late(Response(400, ErrorBody("BAD_JSON"), cors.acao))
        ELSE IF textChecks_part000(r.body, cors.acao) # NoResp
        THEN late(textChecks_part000(r.body, cors.acao))
        ELSE IF ~r.key THEN late(Response(500, ErrorBody("NOT_CONFIGURED"), cors.acao))
        ELSE late(NoResp)

\* a variation of receive_part000: the key is checked before the Content-Type
receive_part000_keyFirst(r, buckets, t) ==
    LET cors == corsCheckAndHeaders(r)
        rl == rateLimit(buckets, getClientIp(r), t)
        early(rsp) == [resp |-> rsp, buckets |-> buckets, limited |-> FALSE]
        late(rsp) == [resp |-> rsp, buckets |-> rl.buckets, limited |-> TRUE]
    IN  IF ~cors.ok THEN early(Response(403, ErrorBody("CORS_DENIED"), NoHeader))
        ELSE IF r.method # "POST"
        THEN early(Response(405, ErrorBody("METHOD_NOT_ALLOWED"), cors.acao))
        ELSE IF ~rl.ok THEN late(Response(429, ErrorBody("RATE_LIMITED"), cors.acao))
        ELSE IF ~r.key THEN late(Response(500, ErrorBody("NOT_CONFIGURED"), cors.acao))
        ELSE IF ~DeclaresJson(r.ct)
        THEN late(Response(415, ErrorBody("BAD_CONTENT_TYPE"), cors.acao))
        ELSE IF r.body.kind = "badjson"
        THEN late(Response(400, ErrorBody("BAD_JSON"), cors.acao))
        ELSE IF textChecks_part000(r.body, cors.acao) # NoResp
        THEN late(textChecks_part000(r.body, cors.acao))
        ELSE late(NoResp)

\* onRequestPost up to the fetch (lines 111-197): [resp, buckets, limited],
\* resp = NoResp when the upstream call is issued; limited: rateLimit was called
receive_part000(r, buckets, t) ==
    LET cors == corsCheckAndHeaders(r)
        rl == rateLimit(buckets, getClientIp(r), t)
        early(rsp) == [resp |-> rsp, buckets |-> buckets, limited |-> FALSE]
        late(rsp) == [resp |-> rsp, buckets |-> rl.buckets, limited |-> TRUE]
    IN  IF ~cors.ok THEN early(Response(403, ErrorBody("CORS_DENIED"), NoHeader))
        ELSE IF r.method # "POST"
        THEN early(Response(405, ErrorBody("METHOD_NOT_ALLOWED"), cors.acao))
        ELSE IF ~rl.ok THEN late(Response(429, ErrorBody("RATE_LIMITED"), cors.acao))
        ELSE IF ~DeclaresJson(r.ct)
        THEN late(Response(415, ErrorBody("BAD_CONTENT_TYPE"), cors.acao))
        ELSE IF r.body.kind = "badjson"
        THEN late(Response(400, ErrorBody("BAD_JSON"), cors.acao))
        ELSE IF textChecks_part000(r.body, cors.acao) # NoResp
        THEN late(textChecks_part000(r.body, cors.acao))
        ELSE IF ~r.key THEN late(Response(500, ErrorBody("NOT_CONFIGURED"), cors.acao))
        ELSE late(NoResp)

\* lines 234-239
safe_part000(parsed) ==
    ResultBody(StringOr(parsed.inputLanguage, "Unknown"),
               StringOr(parsed.improved, ""),
               StringOr(parsed.translation, ""))

\* a variation of finish_part000: the parse fallback leaves `improved` empty
finish_part000_blankDefault(r, out) ==
    LET acao == corsCheckAndHeaders(r).acao
        parsed == IF out.txt = "json" THEN out.val
                  ELSE ParsedObject(PStr("Unknown"), PStr(""), PStr(""))
    IN  IF ~Ok(out) \/ ~out.jsonok THEN Response(502, ErrorBody("UPSTREAM_ERROR"), acao)
        ELSE IF parsed.kind = "null" THEN Uncaught
        ELSE Response(200, safe_part000(parsed), acao)

\* onRequestPost after the fetch (lines 198-250)
finish_part000(r, out) ==
    LET acao == corsCheckAndHeaders(r).acao
        parsed == IF out.txt = "json" THEN out.val
                  ELSE ParsedObject(PStr("Unknown"), PStr(out.raw), PStr(""))
    IN  IF ~Ok(out) \/ ~out.jsonok THEN Response(502, ErrorBody("UPSTREAM_ERROR"), acao)
        ELSE IF parsed.kind = "null" THEN Uncaught
        ELSE Response(200, safe_part000(parsed), acao)

GEMINI_PRO == "gemini-pro"

(***************************************************************************)
(* History of the limiter, for the statements about bursts.                *)
(***************************************************************************)
NoLim == [reached |-> FALSE, ip |-> DefaultIp, burst |-> -1, rej |-> FALSE,
          refill |-> 0, tokens |-> 0, last |-> 0]

\* the admissions are not being recorded
NoAdmissions == [on |-> FALSE, at |-> [ip \in IPs |-> [t \in Times |-> 0]]]

\* rateLimit(ip) has returned true at time t
Admit(a, ip, t) == IF a.on THEN [a EXCEPT !.at[ip][t] = @ + 1] ELSE a

\* what rateLimit(ip) finds at time t
LimOf(buckets, b, ip, t) ==
    [reached |-> TRUE, ip |-> ip,
     burst |-> IF buckets[ip].present THEN b[ip].n ELSE 0,
     rej |-> buckets[ip].present /\ b[ip].rej,
     refill |-> IF buckets[ip].present THEN RefillOf(buckets[ip], t) ELSE 0,
     tokens |-> IF buckets[ip].present THEN buckets[ip].tokens
                ELSE RATE_LIMIT_capacity,
     last |-> IF buckets[ip].present THEN buckets[ip].lastRefillMs ELSE t]

BurstAfter(b, l, admitted) ==
    [b EXCEPT ![l.ip] =
        IF l.refill > 0 THEN [n |-> -1, rej |-> ~admitted]
        ELSE IF admitted
        THEN [n |-> IF l.burst >= 0 THEN l.burst + 1 ELSE -1, rej |-> FALSE]
        ELSE [n |-> l.burst, rej |-> TRUE]]

(***************************************************************************)
(* Actions of part_000                                                     *)
(***************************************************************************)
Idle == pc = "idle"

\* a new request: the per-request variables start afresh
\* the handlers whose code clears the timer when fetch rejects: part_000 in
\* its catch and finally (lines 199, 204), part_004 in its finally (line 139),
\* the first handler of functions/api/gemini.js in its finally (line 132)
ClearsOnReject(v) == v \in {"part_000", "part_004", "api_gemini_1"}

\* the timers pending after the attempt in flight has ended with `out`: a
\* timeout is the timer firing, a reply is followed by clearTimeout, a
\* rejected fetch skips the clearTimeout that follows `await fetch`
TimersAfter(v, out, n) ==
    IF out.kind = "neterr" /\ ~ClearsOnReject(v) THEN n ELSE n - 1

\* a variation of controllerOf: one controller for all attempts of a request
controllerOf_shared(v, n) == <<v, 1>>

\* the AbortController whose signal the n-th fetch of a request is given and
\* which the timer of that attempt aborts: `new AbortController()` stands
\* inside the loop of callGemini and inside fetchWithTimeout and tryModel, so
\* that every attempt has its own
controllerOf(v, n) == <<v, n>>

\* the attempts of this request that ended with a rejected fetch
RejectedAttempts == {k \in 1..Len(hist) : hist[k].out.kind = "neterr"}

\* setTimeout(() => controller.abort(...)) at the start of an attempt
Armed(n, position) == IF position = "fetch" THEN n + 1 ELSE n

Fresh == attempt' = 0 /\ midx' = 1 /\ hist' = <<>> /\ stale' = "none"

\* OPTIONS, routed to onRequestOptions
part000_Options(R) ==
    /\ variant = "part_000" /\ Idle
    /\ \E r \in R :
        /\ r.method = "OPTIONS"
        /\ req' = r
        /\ resp' = onRequestOptions(r)
    /\ pc' = "done" /\ inflight' = "none" /\ lim' = NoLim /\ Fresh
    /\ UNCHANGED <<admits, timers, tasks, served, given, clean, variant, now, ipBuckets, burst>>

\* onRequestPost from its start to the upstream fetch or to an early response
part000_Receive(R) ==
    /\ variant = "part_000" /\ Idle
    /\ \E r \in R :
        LET res == receive_part000(r, ipBuckets, now)
            l == LimOf(ipBuckets, burst, getClientIp(r), now)
        IN  /\ r.method # "OPTIONS"
            /\ req' = r
            /\ ipBuckets' = res.buckets
            /\ resp' = res.resp
            /\ pc' = IF res.resp = NoResp THEN "fetch" ELSE "done"
            /\ inflight' = IF res.resp = NoResp THEN GEMINI_PRO ELSE "none"
            /\ lim' = IF res.limited THEN l ELSE NoLim
            /\ burst' = IF res.limited
                        THEN BurstAfter(burst, l, res.resp.status # 429)
                        ELSE burst
            /\ timers' = Armed(0, pc')
            /\ admits' = IF res.limited /\ res.resp.status # 429
                         THEN Admit(admits, l.ip, now)
                         ELSE admits
    /\ Fresh
    /\ UNCHANGED <<tasks, served, given, clean, variant, now>>

\* the upstream fetch ends, the handler builds its response
part000_Reply(O) ==
    /\ variant = "part_000" /\ pc = "fetch"
    /\ \E out \in O :
        /\ resp' = finish_part000(req, out)
        /\ hist' = Append(hist, [model |-> inflight, out |-> out])
        /\ timers' = TimersAfter(variant, out, timers)
    /\ pc' = "done" /\ inflight' = "none"
    /\ UNCHANGED <<stale, admits, tasks, served, given, clean, variant, now, ipBuckets, req, attempt, midx, burst, lim>>

\* the response has been sent: the handler's task ends
Deliver ==
    /\ pc = "done"
    /\ pc' = "idle" /\ req' = NoReq /\ resp' = NoResp /\ lim' = NoLim
    /\ inflight' = "none" /\ Fresh /\ timers' = 0
    /\ UNCHANGED <<admits, tasks, served, given, clean, variant, now, ipBuckets, burst>>

\* a timer left armed by an attempt that has ended fires: it aborts a
\* controller whose fetch has already been settled, which changes nothing else
TimerFires ==
    /\ timers > Armed(0, pc)
    /\ timers' = timers - 1
    /\ \E k \in RejectedAttempts :
        stale' = IF pc # "fetch" THEN stale
                 ELSE IF controllerOf(variant, k) = controllerOf(variant, Len(hist) + 1)
                 THEN "cancelled"
                 ELSE IF stale = "cancelled" THEN stale ELSE "spared"
    /\ UNCHANGED <<admits, tasks, served, given, clean, variant, now, ipBuckets, req, pc, attempt, midx, hist,
                   inflight, resp, burst, lim>>

\* time passes between two requests
Tick ==
    /\ pc = "idle"
    /\ \E t \in Times : t > now /\ now' = t
    /\ UNCHANGED <<stale, admits, timers, tasks, served, given, clean, variant, ipBuckets, req, pc, attempt, midx, hist, inflight, resp,
                   burst, lim>>

(***************************************************************************)
(* part_001 and the second handler of functions/api/gemini.js: CORS         *)
(* headers, validation, callGemini (timeout and retries), final response.   *)
(***************************************************************************)
GEMINI_25_FLASH == "gemini-2.5-flash"
GEMINI_15_FLASH == "gemini-1.5-flash"
M2M100 == "@cf/meta/m2m100-1.2b"

\* lines 7-14: the value of Access-Control-Allow-Origin
allowOrigin_part001(r) ==
    LET origin == GetOrEmpty(r.origin)
        host == GetOrEmpty(r.host)
    IN  IF origin = HttpsOf(host) \/ origin = ProdOrigin \/ EndsWithProdSuffix(origin)
        THEN origin ELSE EmptyStr

\* (body && body.text ? String(body.text) : "").trim()
rawText_part001(body) ==
    IF body.kind = "object" /\ Truthy(body.text) THEN Trim(body.text.str) ELSE <<>>

\* lines 23-42: the early response, or NoResp when callGemini is reached
validate_part001(r) ==
    LET acao == Header(allowOrigin_part001(r))
        rawText == rawText_part001(r.body)
    IN  IF r.method = "OPTIONS" THEN Response(204, NoBody, acao)
        ELSE IF r.method # "POST" THEN Response(405, ErrorBody("Method Not Allowed"), acao)
        ELSE IF ~DeclaresJson(r.ct)
        THEN Response(415, ErrorBody("Unsupported Media Type"), acao)
        ELSE IF r.body.kind = "badjson" THEN Response(400, ErrorBody("Invalid JSON"), acao)
        ELSE IF rawText = <<>> THEN Response(400, ErrorBody("Missing text"), acao)
        ELSE IF Length(rawText) > 2000 THEN Response(413, ErrorBody("Text too long"), acao)
        ELSE IF ~r.key THEN Response(500, ErrorBody("Server misconfigured"), acao)
        ELSE NoResp

\* (data && data.error && data.error.code) || res.status
errorCode(out) == IF out.jsonok /\ out.errcode # 0 THEN out.errcode ELSE out.status

\* const retryable = code === 429 || res.status >= 500
retryable(out) == errorCode(out) = 429 \/ out.status >= 500

\* the catch block of the loop, then `while (attempt < 3)`
caught(a) ==
    IF a < 3 THEN [next |-> "again", attempt |-> a, result |-> ParsedNull]
    ELSE [next |-> "throw", attempt |-> a, result |-> ParsedNull]

\* a variant of callGemini_part001 that gives up after the second 5xx
callGemini_part001_twoTries(a, out) ==
    IF out.kind # "http" THEN caught(a)
    ELSE IF ~Ok(out)
    THEN IF retryable(out)
         THEN IF a + 1 < 2
              THEN [next |-> "backoff", attempt |-> a + 1, result |-> ParsedNull]
              ELSE [next |-> "throw", attempt |-> a + 1, result |-> ParsedNull]
         ELSE caught(a)
    ELSE IF ~out.jsonok \/ out.txt = "empty" THEN caught(a)
    ELSE IF out.txt = "bad" THEN caught(a)
    ELSE [next |-> "return", attempt |-> a, result |-> out.val]

\* One iteration of callGemini's loop after its fetch ended with `out`, the loop
\* variable being a: [next, attempt, result], next = "return" (with result),
\* "backoff" (wait, then fetch again), "again" (fetch again at once) or "throw".
callGemini_part001(a, out) ==
    IF out.kind # "http" THEN caught(a)
    ELSE IF ~Ok(out)
    THEN IF retryable(out)
         THEN IF a + 1 < 3
              THEN [next |-> "backoff", attempt |-> a + 1, result |-> ParsedNull]
              ELSE caught(a + 1)
         ELSE caught(a)
    ELSE IF ~out.jsonok \/ out.txt = "empty" THEN caught(a)
    ELSE IF out.txt = "bad" THEN caught(a)
    ELSE [next |-> "return", attempt |-> a, result |-> out.val]

\* lines 136-140
safe_part001(result) ==
    ResultBody(StringOr(result.inputLanguage, "Unknown"),
               StringOr(result.improved, ""),
               StringOr(result.translation, ""))

\* lines 135-140; got: callGemini returned `result` (it threw otherwise)
final_part001(r, got, result) ==
    LET acao == Header(allowOrigin_part001(r))
    IN  IF ~got \/ ~result.truthy \/ result.kind # "object"
        THEN Response(502, ErrorBody("Translation upstream unavailable"), acao)
        ELSE Response(200, safe_part001(result), acao)

\* functions/api/gemini.js, second handler -------------------------------
allowOrigin_api2(r) ==
    LET origin == GetOrEmpty(r.origin)
        host == GetOrEmpty(r.host)
    IN  IF origin = HttpsOf(host) \/ origin = ProdOrigin \/ EndsWithProdSuffix(origin)
        THEN origin ELSE EmptyStr

\* (body?.text ?? "").toString().trim()
rawText_api2(body) == Trim(Coalesce(TextOf(body), TStr(<<>>)).str)

validate_api2(r) ==
    LET acao == Header(allowOrigin_api2(r))
        rawText == rawText_api2(r.body)
    IN  IF r.method = "OPTIONS" THEN Response(204, NoBody, acao)
        ELSE IF r.method # "POST" THEN Response(405, ErrorBody("Method Not Allowed"), acao)
        ELSE IF ~DeclaresJson(r.ct)
        THEN Response(415, ErrorBody("Unsupported Media Type"), acao)
        ELSE IF r.body.kind = "badjson" THEN Response(400, ErrorBody("Invalid JSON"), acao)
        ELSE IF rawText = <<>> THEN Response(400, ErrorBody("Missing text"), acao)
        ELSE IF Length(rawText) > 2000 THEN Response(413, ErrorBody("Text too long"), acao)
        ELSE IF LangThrows(r.body) THEN Uncaught
        ELSE IF ~r.key THEN Response(500, ErrorBody("Server misconfigured"), acao)
        ELSE NoResp

\* data?.error?.code ?? res.status, retryable, and the loop of lines 269-311
callGemini_api2(a, out) ==
    IF out.kind # "http" THEN caught(a)
    ELSE IF ~Ok(out)
    THEN IF retryable(out)
         THEN IF a + 1 < 3
              THEN [next |-> "backoff", attempt |-> a + 1, result |-> ParsedNull]
              ELSE caught(a + 1)
         ELSE caught(a)
    ELSE IF ~out.jsonok \/ out.txt = "empty" THEN caught(a)
    ELSE IF out.txt = "bad" THEN caught(a)
    ELSE [next |-> "return", attempt |-> a, result |-> out.val]

\* lines 327-331: the result built from the fallback's translated_text,
\* sourceLang being "auto"
fallbackResult_api2(translated) ==
    ParsedObject(PStr("auto"), StringOr(translated, ""), StringOr(translated, ""))

safe_api2(result) ==
    ResultBody(StringOr(result.inputLanguage, "Unknown"),
               StringOr(result.improved, ""),
               StringOr(result.translation, ""))

final_api2(r, got, result) ==
    LET acao == Header(allowOrigin_api2(r))
    IN  IF ~got \/ ~result.truthy \/ result.kind # "object"
        THEN Response(502, ErrorBody("Translation upstream unavailable"), acao)
        ELSE Response(200, safe_api2(result), acao)

\* the model follows at most MaxCalls upstream calls of one request
Refetch(h, model) ==
    IF Len(h) < MaxCalls
    THEN pc' = "fetch" /\ inflight' = model
    ELSE pc' = "cut" /\ inflight' = "none"

StartCall(v, model) ==
    /\ resp' = v
    /\ pc' = IF v = NoResp THEN "fetch" ELSE "done"
    /\ inflight' = IF v = NoResp THEN model ELSE "none"
    /\ timers' = Armed(0, pc')

part001_Receive(R) ==
    /\ variant = "part_001" /\ Idle
    /\ \E r \in R : req' = r /\ StartCall(validate_part001(r), GEMINI_25_FLASH)
    /\ Fresh
    /\ UNCHANGED <<admits, tasks, served, given, clean, variant, now, ipBuckets, burst, lim>>

\* the fetch of callGemini ends
part001_Reply(O) ==
    /\ variant = "part_001" /\ pc = "fetch"
    /\ \E out \in O :
        LET st == callGemini_part001(attempt, out)
            h == Append(hist, [model |-> inflight, out |-> out])
        IN  /\ hist' = h
            /\ attempt' = st.attempt
            /\ CASE st.next = "return" ->
                        /\ resp' = final_part001(req, TRUE, st.result)
                        /\ pc' = "done" /\ inflight' = "none"
                 [] st.next = "throw" ->
                        /\ resp' = final_part001(req, FALSE, ParsedNull)
                        /\ pc' = "done" /\ inflight' = "none"
                 [] st.next = "backoff" ->
                        /\ resp' = resp
                        /\ pc' = IF Len(h) < MaxCalls THEN "backoff" ELSE "cut"
                        /\ inflight' = "none"
                 [] st.next = "again" ->
                        /\ resp' = resp
                        /\ Refetch(h, GEMINI_25_FLASH)
            /\ timers' = Armed(TimersAfter(variant, out, timers), pc')
    /\ UNCHANGED <<stale, admits, tasks, served, given, clean, variant, now, ipBuckets, req, midx, burst, lim>>

\* the backoff timer fires: the next iteration fetches
part001_Wake ==
    /\ variant = "part_001" /\ pc = "backoff"
    /\ pc' = "fetch" /\ inflight' = GEMINI_25_FLASH
    /\ timers' = timers + 1
    /\ UNCHANGED <<stale, admits, tasks, served, given, clean, variant, now, ipBuckets, req, attempt, midx, hist, resp, burst, lim>>

api2_Receive(R) ==
    /\ variant = "api_gemini_2" /\ Idle
    /\ \E r \in R : req' = r /\ StartCall(validate_api2(r), GEMINI_15_FLASH)
    /\ Fresh
    /\ UNCHANGED <<admits, tasks, served, given, clean, variant, now, ipBuckets, burst, lim>>

api2_Reply(O) ==
    /\ variant = "api_gemini_2" /\ pc = "fetch"
    /\ \E out \in O :
        LET st == callGemini_api2(attempt, out)
            h == Append(hist, [model |-> inflight, out |-> out])
        IN  /\ hist' = h
            /\ attempt' = st.attempt
            /\ CASE st.next = "return" ->
                        /\ resp' = final_api2(req, TRUE, st.result)
                        /\ pc' = "done" /\ inflight' = "none"
                 [] st.next = "throw" /\ req.ai ->
                        /\ resp' = resp
                        /\ pc' = "fallback" /\ inflight' = M2M100
                 [] st.next = "throw" /\ ~req.ai ->
                        /\ resp' = final_api2(req, FALSE, ParsedNull)
                        /\ pc' = "done" /\ inflight' = "none"
                 [] st.next = "backoff" ->
                        /\ resp' = resp
                        /\ pc' = IF Len(h) < MaxCalls THEN "backoff" ELSE "cut"
                        /\ inflight' = "none"
                 [] st.next = "again" ->
                        /\ resp' = resp
                        /\ Refetch(h, GEMINI_15_FLASH)
            /\ timers' = Armed(TimersAfter(variant, out, timers), pc')
    /\ UNCHANGED <<stale, admits, tasks, served, given, clean, variant, now, ipBuckets, req, midx, burst, lim>>

api2_Wake ==
    /\ variant = "api_gemini_2" /\ pc = "backoff"
    /\ pc' = "fetch" /\ inflight' = GEMINI_15_FLASH
    /\ timers' = timers + 1
    /\ UNCHANGED <<stale, admits, tasks, served, given, clean, variant, now, ipBuckets, req, attempt, midx, hist, resp, burst, lim>>

\* the Workers AI fallback ends: a translation, or an exception (caught)
AiReply(translated) ==
    Outcome("ai", 200, 0, TRUE, "json", "", fallbackResult_api2(translated))

api2_Fallback(T) ==
    /\ variant = "api_gemini_2" /\ pc = "fallback"
    /\ \E out \in T :
        /\ hist' = Append(hist, [model |-> inflight, out |-> out])
        /\ resp' = final_api2(req, out.kind = "ai", out.val)
    /\ pc' = "done" /\ inflight' = "none"
    /\ UNCHANGED <<stale, admits, timers, tasks, served, given, clean, variant, now, ipBuckets, req, attempt, midx, burst, lim>>

(***************************************************************************)
(* part_004: the model chain                                               *)
(***************************************************************************)
MODELS == <<"gemini-1.5-flash", "gemini-pro", "gemini-1.5-pro",
            "gemini-2.5-flash-preview-05-20">>

allowOrigin_part004(r) ==
    LET origin == GetOrEmpty(r.origin)
        host == GetOrEmpty(r.host)
    IN  IF origin = HttpsOf(host) \/ origin = ProdOrigin \/ EndsWithProdSuffix(origin)
        THEN origin ELSE EmptyStr

\* (body?.text ?? "").toString().trim()
rawText_part004(body) == Trim(Coalesce(TextOf(body), TStr(<<>>)).str)

\* lines 27-46
validate_part004(r) ==
    LET acao == Header(allowOrigin_part004(r))
        rawText == rawText_part004(r.body)
    IN  IF r.method = "OPTIONS" THEN Response(204, NoBody, acao)
        ELSE IF r.method # "POST" THEN Response(405, ErrorBody("Method Not Allowed"), acao)
        ELSE IF ~DeclaresJson(r.ct)
        THEN Response(415, ErrorBody("Unsupported Media Type"), acao)
        ELSE IF r.body.kind = "badjson" THEN Response(400, ErrorBody("Invalid JSON"), acao)
        ELSE IF rawText = <<>> THEN Response(400, ErrorBody("Missing text"), acao)
        ELSE IF Length(rawText) > 2000 THEN Response(413, ErrorBody("Text too long"), acao)
        ELSE IF LangThrows(r.body) THEN Uncaught
        ELSE IF ~r.key THEN Response(500, ErrorBody("Server misconfigured"), acao)
        ELSE NoResp

\* tryModel: the parsed reply, or null (ParsedNull) after any failure
tryModel(out) ==
    IF out.kind # "http" \/ ~Ok(out) THEN ParsedNull
    ELSE IF ~out.jsonok THEN ParsedNull
    ELSE IF out.txt = "empty" THEN ParsedNull
    ELSE IF out.txt = "bad" THEN ParsedNull
    ELSE out.val

\* a variant of safe_part004 that defaults every member to ""
safe_part004_sameDefault(result) ==
    ResultBody(StringOr(result.inputLanguage, ""),
               StringOr(result.improved, ""),
               StringOr(result.translation, ""))

\* lines 160-164
safe_part004(result) ==
    ResultBody(StringOr(result.inputLanguage, "Unknown"),
               StringOr(result.improved, ""),
               StringOr(result.translation, ""))

\* lines 154-165
final_part004(r, result) ==
    LET acao == Header(allowOrigin_part004(r))
    IN  IF ~result.truthy
        THEN Response(502, ErrorBody("All Gemini models failed or returned invalid JSON/text"), acao)
        ELSE Response(200, safe_part004(result), acao)

\* a variant of chainStops: the loop without its break
chainStops_never(result) == FALSE

\* `if (result) break`
chainStops(result) == result.truthy

part004_Receive(R) ==
    /\ variant = "part_004" /\ Idle
    /\ \E r \in R : req' = r /\ StartCall(validate_part004(r), MODELS[1])
    /\ Fresh
    /\ UNCHANGED <<admits, tasks, served, given, clean, variant, now, ipBuckets, burst, lim>>

\* tryModel(MODELS[midx]) ends; the loop goes on or the handler answers
part004_Reply(O) ==
    /\ variant = "part_004" /\ pc = "fetch"
    /\ \E out \in O :
        LET result == tryModel(out)
        IN  /\ hist' = Append(hist, [model |-> inflight, out |-> out])
            /\ IF chainStops(result) \/ midx >= Len(MODELS)
               THEN /\ resp' = final_part004(req, result)
                    /\ pc' = "done" /\ inflight' = "none" /\ midx' = midx
               ELSE /\ resp' = resp
                    /\ pc' = "fetch" /\ inflight' = MODELS[midx + 1] /\ midx' = midx + 1
            /\ timers' = Armed(TimersAfter(variant, out, timers), pc')
    /\ UNCHANGED <<stale, admits, tasks, served, given, clean, variant, now, ipBuckets, req, attempt, burst, lim>>

(***************************************************************************)
(* functions/api/gemini.js, first handler                                  *)
(***************************************************************************)
GEMINI_PRO_LATEST == "gemini-pro-latest"

\* lines 8-14
allowOrigin_api1(r) ==
    LET origin == GetOrEmpty(r.origin)
        host == GetOrEmpty(r.host)
        allowOrigin == \/ origin = HttpsOf(host)
                       \/ EndsWithProdSuffix(origin)
                       \/ origin = ProdOrigin
    IN  IF allowOrigin THEN origin ELSE Star

\* lines 21-71
validate_api1(r) ==
    LET acao == Header(allowOrigin_api1(r))
        rawText == Coalesce(TextOf(r.body), TStr(<<>>)).str
        cleanText == Trim(rawText)
    IN  IF r.method = "OPTIONS" THEN Response(204, NoBody, acao)
        ELSE IF r.method # "POST" THEN Response(405, ErrorBody("Method Not Allowed"), acao)
        ELSE IF ~DeclaresJson(r.ct)
        THEN Response(415, ErrorBody("Unsupported Media Type"), acao)
        ELSE IF r.body.kind = "badjson" THEN Response(400, ErrorBody("Invalid JSON"), acao)
        ELSE IF cleanText = <<>> THEN Response(400, ErrorBody("Missing text"), acao)
        ELSE IF Length(cleanText) > 2000 THEN Response(413, ErrorBody("Text too long"), acao)
        ELSE IF ~r.key
        THEN Response(500, ErrorBody("Server misconfigured: API key missing"), acao)
        ELSE NoResp

\* JSON.stringify(parsed)
stringify(parsed) ==
    IF parsed.kind = "object"
    THEN ResultBody(parsed.inputLanguage, parsed.improved, parsed.translation)
    ELSE [kind |-> "value", code |-> parsed.kind,
          inputLanguage |-> PUndef, improved |-> PUndef, translation |-> PUndef,
          detail |-> NoDetail]

\* lines 137-141: { error, status: result.status, body: errText.slice(0, 500) }
upstreamError_api1(out) ==
    ErrorBodyWith("Upstream error", Detail("reply", out.status, out.errcode, out.jsonok))

\* lines 127-130: { error, message: err.message }; an abort rejects with the
\* string "timeout", which has no message
fetchFailure_api1(out) ==
    ErrorBodyWith("Upstream failure",
                  IF out.kind = "timeout" THEN NoDetail ELSE Detail("message", 0, 0, FALSE))

\* lines 127-156
finish_api1(r, out) ==
    LET acao == Header(allowOrigin_api1(r))
        parsed == IF out.jsonok /\ out.txt = "json" THEN out.val
                  ELSE ParsedObject(PStr("Unknown"), PStr(""), PStr(""))
    IN  IF out.kind # "http" THEN Response(502, fetchFailure_api1(out), acao)
        ELSE IF ~Ok(out) THEN Response(502, upstreamError_api1(out), acao)
        ELSE Response(200, stringify(parsed), acao)

api1_Receive(R) ==
    /\ variant = "api_gemini_1" /\ Idle
    /\ \E r \in R : req' = r /\ StartCall(validate_api1(r), GEMINI_PRO_LATEST)
    /\ Fresh
    /\ UNCHANGED <<admits, tasks, served, given, clean, variant, now, ipBuckets, burst, lim>>

api1_Reply(O) ==
    /\ variant = "api_gemini_1" /\ pc = "fetch"
    /\ \E out \in O :
        /\ resp' = finish_api1(req, out)
        /\ hist' = Append(hist, [model |-> inflight, out |-> out])
        /\ timers' = TimersAfter(variant, out, timers)
    /\ pc' = "done" /\ inflight' = "none"
    /\ UNCHANGED <<stale, admits, tasks, served, given, clean, variant, now, ipBuckets, req, attempt, midx, burst, lim>>

(***************************************************************************)
(* part_003: a primary and a fallback model, the key in the source          *)
(***************************************************************************)
PRIMARY_MODEL == "gemini-2.5-flash-preview-05-20"
FALLBACK_MODEL == "gemini-1.5-flash"

\* the record { error: true, model, message: err.message }
Failure_part003(message) == [error |-> TRUE, val |-> ParsedNull, message |-> message]

\* lines 51-71: the parsed reply, or the failure record; the message of a
\* non-2xx reply is `Gemini ${model} responded with ${res.status}`
fetchWithTimeout(out) ==
    IF out.kind = "timeout" THEN Failure_part003(NoDetail)
    ELSE IF out.kind # "http" THEN Failure_part003(Detail("message", 0, 0, FALSE))
    ELSE IF ~Ok(out) THEN Failure_part003(Detail("status", out.status, 0, FALSE))
    ELSE IF ~out.jsonok THEN Failure_part003(Detail("message", 0, 0, FALSE))
    ELSE IF out.txt = "empty" THEN Failure_part003(NoDetail)
    ELSE IF out.txt = "bad" THEN Failure_part003(Detail("message", 0, 0, FALSE))
    ELSE [error |-> FALSE, val |-> out.val, message |-> NoDetail]

\* result?.error
errorOf(result) == result.error \/ (result.val.kind = "object" /\ result.val.err)

\* lines 74-81 and 109-114
validate_part003(r) ==
    LET text == TextOf(r.body)
    IN  IF r.body.kind = "badjson" THEN Response(500, ErrorBody("Server error"), NoHeader)
        ELSE IF ~Truthy(text) \/ text.t # "string"
        THEN Response(400, ErrorBody("Missing or invalid 'text' field"), NoHeader)
        ELSE NoResp

\* lines 93-108
final_part003(result) ==
    IF errorOf(result)
    THEN Response(502, ErrorBodyWith("Upstream failure", result.message), NoHeader)
    ELSE Response(200, stringify(result.val), Header(ProdOrigin))

\* the platform hands POST requests to onRequestPost
part003_Receive(R) ==
    /\ variant = "part_003" /\ Idle
    /\ \E r \in R :
        /\ r.method = "POST"
        /\ req' = r /\ StartCall(validate_part003(r), PRIMARY_MODEL)
    /\ Fresh
    /\ UNCHANGED <<admits, tasks, served, given, clean, variant, now, ipBuckets, burst, lim>>

\* fetchWithTimeout ends: the fallback is called once, after the primary
part003_Reply(O) ==
    /\ variant = "part_003" /\ pc = "fetch"
    /\ \E out \in O :
        LET result == fetchWithTimeout(out)
        IN  /\ hist' = Append(hist, [model |-> inflight, out |-> out])
            /\ IF errorOf(result) /\ midx = 1
               THEN /\ resp' = resp
                    /\ pc' = "fetch" /\ inflight' = FALLBACK_MODEL /\ midx' = 2
               ELSE /\ resp' = final_part003(result)
                    /\ pc' = "done" /\ inflight' = "none" /\ midx' = midx
            /\ timers' = Armed(TimersAfter(variant, out, timers), pc')
    /\ UNCHANGED <<stale, admits, tasks, served, given, clean, variant, now, ipBuckets, req, attempt, burst, lim>>

(***************************************************************************)
(* Inputs                                                                  *)
(***************************************************************************)
Letters(n) == <<Run("L", n)>>

NonStrings == {TUndef, TNull, TNum5, TNum0, TTrue, TFalse, TObj, TArr}

\* texts around the limits: "", " ", "a", "$", 2000 and 2001 and 4001 letters,
\* 2001 spaces followed by a letter, 1001 ligatures, 1000 ligatures
SomeTexts ==
    {<<>>, <<Run("Z", 1)>>, Letters(1), <<Run("S", 1)>>,
     Letters(MAX_CHARS), Letters(MAX_CHARS + 1), Letters(2 * MAX_CHARS + 1),
     <<Run("Z", MAX_CHARS + 1), Run("L", 1)>>, <<Run("X", MAX_CHARS \div 2 + 1)>>,
     <<Run("X", MAX_CHARS \div 2)>>}

Bodies ==
    {BadJsonBody, NullBody} \cup {ObjectBody(v) : v \in NonStrings}
        \cup {ObjectBody(TStr(s)) : s \in SomeTexts}

Origins == {NoHeader, Header(EmptyStr), Header(ProdOrigin), Header(OwnOrigin),
            Header(PreviewOrigin), Header(EvilOrigin)}

JsonCt == "application/json"
ContentTypes == {JsonCt, "Application/JSON; charset=utf-8", "text/plain", ""}

BaseRequest ==
    Request("POST", NoHeader, Header(OwnHost), "", <<>>, JsonCt,
            ObjectBody(TStr(Letters(1))), TRUE, FALSE)

\* every combination of a few values of each input
CrossRequests ==
    {Request(m, o, Header(OwnHost), "", <<>>, ct, b, k, FALSE) :
        m \in {"POST", "GET", "OPTIONS"},
        o \in {NoHeader, Header(ProdOrigin), Header(EvilOrigin)},
        ct \in {JsonCt, "text/plain"},
        b \in {BadJsonBody, ObjectBody(TUndef), ObjectBody(TNum5),
               ObjectBody(TStr(Letters(1))), ObjectBody(TStr(Letters(MAX_CHARS + 1)))},
        k \in BOOLEAN}

\* the base request with one input varied over all its values
SliceRequests ==
    {[BaseRequest EXCEPT !.origin = o, !.method = m] :
        o \in Origins, m \in {"POST", "OPTIONS"}}
    \cup {[BaseRequest EXCEPT !.body = b] : b \in Bodies}
    \cup {[BaseRequest EXCEPT !.ct = ct] : ct \in ContentTypes}
    \cup {[BaseRequest EXCEPT !.ai = TRUE, !.origin = o] :
            o \in {NoHeader, Header(EvilOrigin)}}
    \cup {[BaseRequest EXCEPT !.host = NoHeader]}
    \cup {[BaseRequest EXCEPT !.body = ObjectBodyLang(TStr(Letters(1)), t, TUndef)] :
            t \in {TNull, TNum5, TStr(<<Run("L", 2)>>)}}
    \cup {[BaseRequest EXCEPT !.body = ObjectBodyLang(TStr(Letters(1)), TUndef, TObj)]}

Requests == CrossRequests \cup SliceRequests

\* requests of two clients, for the limiter
LimiterRequests ==
    {[BaseRequest EXCEPT !.method = m, !.origin = o, !.cf = cf] :
        m \in {"POST", "GET"}, o \in {NoHeader, Header(EvilOrigin)},
        cf \in {"", ClientIp}}

FieldValues == {PUndef, PNull, PStr(""), PStr("x"), PNum5, PNum0}
Payloads ==
    {ParsedObject(il, im, tr) : il \in FieldValues, im \in FieldValues, tr \in FieldValues}
        \cup {ParsedNull, ParsedNumber, ParsedZero}

FewFieldValues == {PUndef, PStr("x"), PNum5}
FewPayloads ==
    {ParsedObject(il, im, tr) :
        il \in FewFieldValues, im \in FewFieldValues, tr \in FewFieldValues}
        \cup {ParsedNull, ParsedNumber}

Failures == {NetErr, TimedOut, HttpError(503, 0, TRUE), HttpError(429, 0, TRUE),
             HttpError(400, 0, TRUE), HttpError(500, 0, FALSE),
             NotJsonBody, EmptyText, BadText}
Outcomes == Failures \cup {JsonText(v) : v \in Payloads}
FewOutcomes == Failures \cup {JsonText(v) : v \in FewPayloads}

\* for the retry loop: one failure of each class, two replies whose body names
\* another error code than their status, and some payloads
RetryOutcomes ==
    {NetErr, TimedOut, HttpError(503, 0, TRUE), HttpError(400, 0, TRUE),
     HttpError(400, 429, TRUE), HttpError(429, 400, TRUE), BadText,
     JsonText(ParsedNull), JsonText(ParsedNumber),
     JsonText(ParsedObject(PStr("en"), PStr("x"), PStr("y"))),
     JsonText(ParsedObject(PUndef, PStr("x"), PUndef))}

\* for the chain: failures of four classes, and the payloads
ChainFailures == {NetErr, HttpError(503, 0, TRUE), EmptyText, BadText}
ChainOutcomes == ChainFailures \cup {JsonText(v) : v \in Payloads \ {ParsedZero}}

\* for the normaliser behind the retry loop: three failures, and every payload
PayloadOutcomes == {NetErr, HttpError(503, 0, TRUE), BadText} \cup {JsonText(v) : v \in Payloads}

FallbackOutcomes == {NetErr, AiReply(PStr("xin chao")), AiReply(PUndef)}

\* for the primary and its fallback: every failure, some payloads, and
\* objects that carry a member `error`
PrimaryOutcomes ==
    FewOutcomes \cup {JsonText(WithError(ParsedObject(PUndef, PUndef, PUndef))),
                      JsonText(WithError(ParsedObject(PStr("en"), PStr("x"), PStr("y"))))}

(***************************************************************************)
(* Specifications                                                          *)
(***************************************************************************)
Variants == {"part_000", "part_001", "part_003", "part_004", "api_gemini_1",
             "api_gemini_2"}

InitOf(V) ==
    /\ variant \in V
    /\ now = 0
    /\ ipBuckets = [ip \in IPs |-> NoBucket]
    /\ req = NoReq
    /\ pc = "idle"
    /\ attempt = 0
    /\ midx = 1
    /\ hist = <<>>
    /\ inflight = "none"
    /\ resp = NoResp
    /\ burst = [ip \in IPs |-> [n |-> -1, rej |-> FALSE]]
    /\ lim = NoLim
    /\ timers = 0 /\ stale = "none"

\* sanitizeUserText is not being followed on its own
NoText == given = <<>> /\ clean = <<>>

\* no concurrent requests are being followed
NoTasks == tasks = <<>> /\ served = [ip \in IPs |-> 0]

\* the admissions are not being recorded
NoWindow == admits = NoAdmissions

\* any one variant deployed, one request at a time, the clock at rest
Init == InitOf(Variants) /\ NoText /\ NoTasks /\ NoWindow
Next ==
    \/ part000_Options(Requests)
    \/ part000_Receive(Requests)
    \/ part000_Reply(FewOutcomes)
    \/ TimerFires
    \/ part001_Receive(Requests)
    \/ part001_Reply(PayloadOutcomes)
    \/ part001_Wake
    \/ api2_Receive(Requests)
    \/ api2_Reply(RetryOutcomes)
    \/ api2_Wake
    \/ api2_Fallback(FallbackOutcomes)
    \/ part004_Receive(Requests)
    \/ part004_Reply(ChainOutcomes)
    \/ api1_Receive(Requests)
    \/ api1_Reply(FewOutcomes)
    \/ part003_Receive(Requests)
    \/ part003_Reply(PrimaryOutcomes)
    \/ Deliver
Spec == Init /\ [][Next]_vars

\* the limiter of part_000: two clients and a clock
InitLimiter == InitOf({"part_000"}) /\ NoText /\ NoTasks /\ NoWindow
NextLimiter ==
    \/ part000_Receive(LimiterRequests)
    \/ part000_Reply({EmptyText, NetErr})
    \/ Deliver
    \/ Tick
SpecLimiter == InitLimiter /\ [][NextLimiter]_vars

(***************************************************************************)
(* part_000 with a clock that may stand still, advance or go backwards      *)
(* between two requests (Date.now() follows the system clock).              *)
(***************************************************************************)
ClockRequests ==
    {[BaseRequest EXCEPT !.cf = cf, !.ct = ct] :
        cf \in {"", ClientIp}, ct \in {JsonCt, "text/plain"}}

ClockJump ==
    /\ pc = "idle"
    /\ \E t \in Times : t # now /\ now' = t
    /\ UNCHANGED <<stale, admits, timers, tasks, served, given, clean, variant, ipBuckets, req, pc, attempt, midx, hist,
                   inflight, resp, burst, lim>>

NextClock ==
    \/ part000_Receive(ClockRequests)
    \/ part000_Reply({EmptyText})
    \/ Deliver
    \/ ClockJump
SpecClock == InitLimiter /\ [][NextClock]_vars

(***************************************************************************)
(* part_000 handling several requests at once.  The runtime runs one        *)
(* handler at a time and switches between handlers only where one awaits:   *)
(* at request.json() (line 141), at fetch (line 192) and at upstream.json()  *)
(* (line 223).  A task is [pc, req, resp, admitted], pc "new" (not yet      *)
(* started), "body", "fetch", "json" (waiting at that await) or "done".     *)
(* The clock is at rest: no refill occurs.                                  *)
(***************************************************************************)
NewTask == [pc |-> "new", req |-> NoReq, out |-> NetErr, resp |-> NoResp,
            admitted |-> FALSE]

ConcurrentRequests ==
    {[BaseRequest EXCEPT !.cf = cf, !.ct = ct] :
        cf \in {"", ClientIp}, ct \in {JsonCt, "text/plain"}}

\* the bucket of an ip after n admitted requests at time 0
BucketAfter(n) == IF n = 0 THEN NoBucket ELSE Bucket(RATE_LIMIT_capacity - n, 0)

\* lines 139-167, after request.json(): the error response, or NoResp
bodyChecks_part000(r) ==
    LET acao == corsCheckAndHeaders(r).acao
    IN  IF r.body.kind = "badjson" THEN Response(400, ErrorBody("BAD_JSON"), acao)
        ELSE IF textChecks_part000(r.body, acao) # NoResp
        THEN textChecks_part000(r.body, acao)
        ELSE IF ~r.key THEN Response(500, ErrorBody("NOT_CONFIGURED"), acao)
        ELSE NoResp

\* lines 111-141: from the start of onRequestPost to its first await; only
\* the responses 403, 405, 429 and 415 are returned before it
TaskStart(i) ==
    /\ tasks[i].pc = "new"
    /\ \E r \in ConcurrentRequests :
        LET res == receive_part000(r, ipBuckets, now)
            early == res.resp.status \in {403, 405, 429, 415}
        IN  /\ ipBuckets' = res.buckets
            /\ tasks' = [tasks EXCEPT ![i] =
                    [pc |-> IF early THEN "done" ELSE "body",
                     req |-> r,
                     out |-> NetErr,
                     resp |-> IF early THEN res.resp ELSE NoResp,
                     admitted |-> res.limited /\ res.resp.status # 429]]
    /\ UNCHANGED <<stale, admits, timers, variant, now, req, pc, attempt, midx, hist, inflight, resp,
                   burst, lim, given, clean, served>>

\* lines 141-197: request.json() has ended; up to the await of the fetch
TaskBody(i) ==
    /\ tasks[i].pc = "body"
    /\ LET rsp == bodyChecks_part000(tasks[i].req)
       IN  tasks' = [tasks EXCEPT ![i].pc = IF rsp = NoResp THEN "fetch" ELSE "done",
                                  ![i].resp = rsp]
    /\ UNCHANGED <<stale, admits, timers, variant, now, ipBuckets, req, pc, attempt, midx, hist, inflight,
                   resp, burst, lim, given, clean, served>>

\* lines 198-223: the fetch has ended; up to the await of upstream.json()
TaskFetched(i, O) ==
    /\ tasks[i].pc = "fetch"
    /\ \E out \in O :
        tasks' = [tasks EXCEPT ![i].pc = IF Ok(out) THEN "json" ELSE "done",
                               ![i].out = out,
                               ![i].resp = IF Ok(out) THEN NoResp
                                           ELSE finish_part000(tasks[i].req, out)]
    /\ UNCHANGED <<stale, admits, timers, variant, now, ipBuckets, req, pc, attempt, midx, hist, inflight,
                   resp, burst, lim, given, clean, served>>

\* lines 223-250: upstream.json() has ended; the response
TaskFinish(i) ==
    /\ tasks[i].pc = "json"
    /\ tasks' = [tasks EXCEPT ![i].pc = "done",
                              ![i].resp = finish_part000(tasks[i].req, tasks[i].out)]
    /\ UNCHANGED <<stale, admits, timers, variant, now, ipBuckets, req, pc, attempt, midx, hist, inflight,
                   resp, burst, lim, given, clean, served>>

InitConcurrent ==
    /\ variant = "part_000"
    /\ now = 0
    /\ served \in [IPs -> {0} \cup ((RATE_LIMIT_capacity - MaxTasks + 1)..RATE_LIMIT_capacity)]
    /\ ipBuckets = [ip \in IPs |-> BucketAfter(served[ip])]
    /\ tasks = [i \in 1..MaxTasks |-> NewTask]
    /\ req = NoReq
    /\ pc = "idle"
    /\ attempt = 0
    /\ midx = 1
    /\ hist = <<>>
    /\ inflight = "none"
    /\ resp = NoResp
    /\ burst = [ip \in IPs |-> [n |-> -1, rej |-> FALSE]]
    /\ lim = NoLim
    /\ timers = 0 /\ stale = "none"
    /\ NoText /\ NoWindow

NextConcurrent ==
    \E i \in 1..MaxTasks :
        \/ TaskStart(i)
        \/ TaskBody(i)
        \/ TaskFetched(i, {NetErr, EmptyText})
        \/ TaskFinish(i)
SpecConcurrent == InitConcurrent /\ [][NextConcurrent]_vars

(***************************************************************************)
(* part_000 and part_004 with an upstream that may stall after its response  *)
(* headers.  fetch resolves when the headers arrive; the body is read        *)
(* afterwards by upstream.text() / upstream.json() (part_000 lines 208, 223)  *)
(* and res.json() (part_004 line 124).                                       *)
(***************************************************************************)
\* the headers have arrived: the timer is cleared (part_000 line 204, part_004
\* line 122) and the handler awaits a body that never completes; nothing is
\* left that could end the wait
BodyStalls ==
    /\ variant \in {"part_000", "part_004"} /\ pc = "fetch"
    /\ pc' = "body"
    /\ timers' = timers - 1
    /\ UNCHANGED <<stale, admits, tasks, served, given, clean, variant, now, ipBuckets, req, attempt, midx, hist,
                   inflight, resp, burst, lim>>

StallOutcomes == {NetErr, TimedOut, HttpError(503, 0, TRUE), EmptyText,
                  JsonText(ParsedObject(PStr("en"), PStr("x"), PStr("y")))}

\* the attempt in flight ends: by a reply, a rejected fetch, its timer
\* firing, or headers followed by a stalled body
AttemptEnds ==
    \/ part000_Reply(StallOutcomes)
    \/ part004_Reply(StallOutcomes)
    \/ BodyStalls

InitStall == InitOf({"part_000", "part_004"}) /\ NoText /\ NoTasks /\ NoWindow
NextStall ==
    \/ part000_Receive(ClockRequests)
    \/ part004_Receive(ClockRequests)
    \/ AttemptEnds
    \/ Deliver
\* a fetch in flight settles: the upstream answers or fails, or the timer
\* armed before the fetch aborts it
SpecStall == InitStall /\ [][NextStall]_vars /\ WF_vars(AttemptEnds)

(***************************************************************************)
(* The retry handlers (part_001, second handler of functions/api/gemini.js)  *)
(* followed without a bound on the number of upstream calls: of the calls    *)
(* that have ended only the last one is kept.                                *)
(***************************************************************************)
\* every call gets an answer: a status and a body
AnsweredOutcomes == {o \in RetryOutcomes : o.kind = "http"}

\* one iteration of the loop `while (attempt < 3)` of callGemini, from the
\* answer to its fetch to the next fetch, the backoff, or the response
callGemini_Iteration(O) ==
    /\ variant \in {"part_001", "api_gemini_2"} /\ pc = "fetch"
    /\ \E out \in O :
        LET st == IF variant = "part_001" THEN callGemini_part001(attempt, out)
                  ELSE callGemini_api2(attempt, out)
            final(got, result) == IF variant = "part_001"
                                  THEN final_part001(req, got, result)
                                  ELSE final_api2(req, got, result)
        IN  /\ hist' = <<[model |-> inflight, out |-> out]>>
            /\ attempt' = st.attempt
            /\ CASE st.next = "return" ->
                        /\ resp' = final(TRUE, st.result)
                        /\ pc' = "done" /\ inflight' = "none"
                 [] st.next = "throw" /\ variant = "api_gemini_2" /\ req.ai ->
                        /\ resp' = resp
                        /\ pc' = "fallback" /\ inflight' = M2M100
                 [] st.next = "throw" /\ ~(variant = "api_gemini_2" /\ req.ai) ->
                        /\ resp' = final(FALSE, ParsedNull)
                        /\ pc' = "done" /\ inflight' = "none"
                 [] st.next = "backoff" ->
                        /\ resp' = resp
                        /\ pc' = "backoff" /\ inflight' = "none"
                 [] st.next = "again" ->
                        /\ resp' = resp
                        /\ pc' = "fetch" /\ inflight' = inflight
            /\ timers' = Armed(TimersAfter(variant, out, timers), pc')
    /\ UNCHANGED <<stale, admits, tasks, served, given, clean, variant, now, ipBuckets, req, midx, burst, lim>>

InitRetry == InitOf({"part_001", "api_gemini_2"}) /\ NoText /\ NoTasks /\ NoWindow
NextRetry ==
    \/ part001_Receive(Requests)
    \/ api2_Receive(Requests)
    \/ callGemini_Iteration(AnsweredOutcomes)
    \/ part001_Wake
    \/ api2_Wake
    \/ api2_Fallback(FallbackOutcomes)
    \/ Deliver
\* every fetch is answered, every backoff timer fires, env.AI.run settles
SpecRetry ==
    /\ InitRetry /\ [][NextRetry]_vars
    /\ WF_vars(callGemini_Iteration(AnsweredOutcomes))
    /\ WF_vars(part001_Wake) /\ WF_vars(api2_Wake)
    /\ WF_vars(api2_Fallback(FallbackOutcomes))

(***************************************************************************)
(* The limiter of part_000 with every admission recorded, under a clock that *)
(* never goes back.  One client is followed, either the one without an      *)
(* address header or the one with CF-Connecting-IP; its requests pass the    *)
(* limiter and are answered 415 by the next check.  At the start the client  *)
(* has already been admitted served[ip] times at time 0: once, by the call   *)
(* that created its bucket, or so often that at most MaxLeft tokens are left.*)
(***************************************************************************)
\* the tokens left in a bucket at the start are 0 .. MaxLeft
MaxLeft == 3

\* the times of this clock: half a token's worth, one token's worth, and
\* more than a full bucket's worth after the start
WindowTimes == {0, TickMs, 2 * TickMs, LongMs}

\* time passes between two requests
WindowTick ==
    /\ pc = "idle"
    /\ \E t \in WindowTimes : t > now /\ now' = t
    /\ UNCHANGED <<stale, admits, timers, tasks, served, given, clean, variant, ipBuckets, req, pc, attempt,
                   midx, hist, inflight, resp, burst, lim>>

WindowRequests ==
    {r \in {[BaseRequest EXCEPT !.cf = cf, !.ct = "text/plain"] : cf \in {"", ClientIp}} :
        served[getClientIp(r)] > 0}

InitWindow ==
    /\ variant = "part_000"
    /\ now = 0
    /\ served \in {f \in [IPs -> {0, 1} \cup ((RATE_LIMIT_capacity - MaxLeft)..RATE_LIMIT_capacity)] :
                        Cardinality({ip \in IPs : f[ip] > 0}) = 1}
    /\ ipBuckets = [ip \in IPs |-> BucketAfter(served[ip])]
    /\ admits = [on |-> TRUE,
                 at |-> [ip \in IPs |-> [t \in Times |-> IF t = 0 THEN served[ip] ELSE 0]]]
    /\ burst = [ip \in IPs |-> [n |-> IF served[ip] > 0 THEN served[ip] ELSE -1,
                                 rej |-> FALSE]]
    /\ tasks = <<>>
    /\ req = NoReq
    /\ pc = "idle"
    /\ attempt = 0
    /\ midx = 1
    /\ hist = <<>>
    /\ inflight = "none"
    /\ resp = NoResp
    /\ lim = NoLim
    /\ timers = 0 /\ stale = "none"
    /\ NoText
NextWindow ==
    \/ part000_Receive(WindowRequests)
    \/ Deliver
    \/ WindowTick
SpecWindow == InitWindow /\ [][NextWindow]_vars

(***************************************************************************)
(* The limiter of part_000 and the address headers: requests with and        *)
(* without CF-Connecting-IP, with and without x-forwarded-for (one address,  *)
(* or a blank first entry before an address), from two origins; they pass    *)
(* the limiter and are answered 415 by the next check.                       *)
(***************************************************************************)
KeyRequests ==
    {[BaseRequest EXCEPT !.cf = cf, !.xff = xff, !.origin = o, !.ct = "text/plain"] :
        cf \in {"", ClientIp},
        xff \in {<<>>, <<ClientIp>>, <<"", ClientIp>>},
        o \in {NoHeader, Header(ProdOrigin)}}

NextKeys ==
    \/ part000_Receive(KeyRequests)
    \/ Deliver
    \/ Tick
SpecKeys == InitLimiter /\ [][NextKeys]_vars

(***************************************************************************)
(* sanitizeUserText on its own: given a string, then given its own result.  *)
(***************************************************************************)
Classes == {"L", "N", "P", "Z", "S", "C", "X"}

\* the strings of at most MaxRuns runs of at most MaxRunLen characters each
TextInputs ==
    UNION {{s \in [1..k -> {Run(c, n) : c \in Classes, n \in 1..MaxRunLen}] :
                \A i \in 1..(k - 1) : s[i].c # s[i + 1].c} : k \in 0..MaxRuns}
        \cup SomeTexts

\* sanitizeUserText(raw), then sanitizeUserText of what it returned
Sanitize ==
    /\ Len(clean) < 2
    /\ clean' = Append(clean, sanitizeUserText(IF clean = <<>> THEN given
                                                ELSE clean[Len(clean)]))
    /\ UNCHANGED <<stale, admits, timers, tasks, served, given, variant, now, ipBuckets, req, pc, attempt, midx, hist,
                   inflight, resp, burst, lim>>

InitText == InitOf({"part_000"}) /\ given \in TextInputs /\ clean = <<>> /\ NoTasks /\ NoWindow
NextText == Sanitize
SpecText == InitText /\ [][NextText]_vars

(***************************************************************************)
(* Properties                                                              *)
(***************************************************************************)
NoUpstreamCall == hist = <<>> /\ inflight = "none"

Status(n) == pc = "done" /\ resp.status = n

Is503(out) == out.kind = "http" /\ out.status = 503

\* a 2xx reply whose text parses to a JSON object
Structured(out) ==
    /\ out.kind = "http" /\ out.status >= 200 /\ out.status <= 299
    /\ out.jsonok /\ out.txt = "json" /\ out.val.kind = "object"

\* a 2xx reply whose text is not parseable JSON
Unparseable(out) ==
    /\ out.kind = "http" /\ out.status >= 200 /\ out.status <= 299
    /\ out.jsonok /\ out.txt = "bad"

\* C1 as stated: in part_000, an OPTIONS or POST request whose Origin header is
\* present and not in the allow-list is answered 403, with no upstream call.
C1_DisallowedOrigin403 ==
    (/\ variant = "part_000" /\ pc # "idle"
     /\ req.method \in {"OPTIONS", "POST"}
     /\ req.origin.present /\ req.origin.val \notin ORIGIN_ALLOW)
    => (Status(403) /\ NoUpstreamCall)

\* C1 amended: in part_000, an OPTIONS or POST request whose Origin header has a
\* non-empty value that is not in the allow-list is answered 403, with no
\* upstream call.
C1_NonEmptyDisallowedOrigin403 ==
    (/\ variant = "part_000" /\ pc # "idle"
     /\ req.method \in {"OPTIONS", "POST"}
     /\ req.origin.present /\ req.origin.val # EmptyStr
     /\ req.origin.val \notin ORIGIN_ALLOW)
    => (Status(403) /\ NoUpstreamCall)

\* a POST from a foreign origin, otherwise fit to be forwarded, answered 403
C1_Witness ==
    /\ variant = "part_000" /\ Status(403) /\ NoUpstreamCall
    /\ req = [BaseRequest EXCEPT !.origin = Header(EvilOrigin)]

\* C2 as stated: in part_001, part_004 and the second handler of
\* functions/api/gemini.js, a POST whose Origin is present and matches none of
\* https://{Host}, the production host and the trusted suffix is answered 403,
\* with no upstream call.
C2_ForeignOrigin403 ==
    (/\ variant \in {"part_001", "part_004", "api_gemini_2"} /\ pc # "idle"
     /\ req.method = "POST"
     /\ req.origin.present
     /\ req.origin.val # HttpsOf(GetOrEmpty(req.host))
     /\ req.origin.val # ProdOrigin
     /\ ~EndsWithProdSuffix(req.origin.val))
    => (Status(403) /\ NoUpstreamCall)

\* C3: once a client was admitted `capacity` times from a fresh bucket with no
\* refill, a further request of that client is rejected with 429 while the
\* refill floor(elapsed minutes x refillPerMinute) is below 1, and admitted as
\* soon as it is at least 1, rejected requests in between or not.
C3_BurstThenRefill ==
    (variant = "part_000" /\ lim.reached /\ lim.burst = RATE_LIMIT_capacity)
    => IF lim.refill >= 1
       THEN pc = "fetch" \/ (pc = "done" /\ resp.status # 429)
       ELSE Status(429) /\ NoUpstreamCall

\* after a full burst and a rejected request, the refill admits the next one
C3_Witness ==
    /\ variant = "part_000" /\ lim.reached /\ lim.burst = RATE_LIMIT_capacity
    /\ lim.rej /\ lim.refill >= 1 /\ Status(200)

\* the request got as far as the checks of the member `text` in part_000
PastJsonParse_part000 ==
    /\ variant = "part_000" /\ req.method = "POST"
    /\ pc = "fetch" \/
       (pc = "done" /\ resp.body.code \notin
            {"CORS_DENIED", "METHOD_NOT_ALLOWED", "RATE_LIMITED",
             "BAD_CONTENT_TYPE", "BAD_JSON"})

\* C4 as stated: in part_000, a request that passes the origin, method, limiter,
\* content-type and JSON checks and whose text is longer than MAX_CHARS is
\* answered 413.
C4_LongText413 ==
    (/\ PastJsonParse_part000
     /\ TextOf(req.body).t = "string"
     /\ Length(TextOf(req.body).str) > MAX_CHARS)
    => Status(413)

\* the request got as far as the checks of the member `text`
PastJsonParse ==
    /\ pc \notin {"idle"} /\ req.method = "POST"
    /\ DeclaresJson(req.ct) /\ req.body.kind # "badjson"
    /\ variant = "part_000" => PastJsonParse_part000

\* C5 as stated: a request whose body has no text, a text that is no string, or
\* a text that is empty after trimming is answered 400, with no upstream call.
C5_InvalidText400 ==
    (/\ PastJsonParse
     /\ \/ TextOf(req.body).t # "string"
        \/ Trim(TextOf(req.body).str) = <<>>)
    => (Status(400) /\ NoUpstreamCall)

\* the model the retry loop of the deployed handler calls
ModelOf(v) == IF v = "part_001" THEN GEMINI_25_FLASH ELSE GEMINI_15_FLASH

\* C6: when the upstream answers 503 to the first two calls, callGemini goes on
\* to a third call of the same model, and when that call returns a structured
\* reply callGemini returns its parsed value after exactly 3 calls to its
\* model, and no other backend is called.
C6_ThirdAttemptSucceeds ==
    (/\ variant \in {"part_001", "api_gemini_2"}
     /\ Len(hist) >= 2
     /\ Is503(hist[1].out) /\ Is503(hist[2].out))
    => /\ Len(hist) = 2 =>
            /\ pc \in {"backoff", "fetch"}
            /\ inflight = (IF pc = "fetch" THEN ModelOf(variant) ELSE "none")
       /\ (Len(hist) >= 3 /\ Structured(hist[3].out)) =>
            /\ Len(hist) = 3 /\ inflight = "none"
            /\ \A i \in 1..3 : hist[i].model = ModelOf(variant)
            /\ Status(200)
            /\ resp.body =
                 ResultBody(StringOr(hist[3].out.val.inputLanguage, "Unknown"),
                            StringOr(hist[3].out.val.improved, ""),
                            StringOr(hist[3].out.val.translation, ""))

\* 503, 503, then a structured reply, with the fallback binding present
C6_Witness ==
    /\ variant = "api_gemini_2" /\ req.ai /\ Status(200) /\ Len(hist) = 3
    /\ Is503(hist[1].out) /\ Is503(hist[2].out) /\ Structured(hist[3].out)

\* C7: in part_004, when the first model's 2xx reply is not parseable and the
\* second model's reply is structured, the response is 200 built from the
\* second model's parsed value, and the first model was called exactly once.
C7_ParseFailureAdvances ==
    (/\ variant = "part_004"
     /\ Len(hist) >= 2
     /\ Unparseable(hist[1].out) /\ Structured(hist[2].out))
    => /\ Len(hist) = 2 /\ inflight = "none"
       /\ hist[1].model = MODELS[1] /\ hist[2].model = MODELS[2]
       /\ Status(200)
       /\ resp.body = ResultBody(StringOr(hist[2].out.val.inputLanguage, "Unknown"),
                                 StringOr(hist[2].out.val.improved, ""),
                                 StringOr(hist[2].out.val.translation, ""))

C7_Witness ==
    /\ variant = "part_004" /\ Status(200) /\ Len(hist) = 2
    /\ Unparseable(hist[1].out) /\ Structured(hist[2].out)
    /\ resp.body.translation = PStr("x")

\* the reply the 200 response was built from
LastOut == hist[Len(hist)].out

\* a 200 response of a normalising handler, built from a parsed object
NormalizedReply ==
    /\ variant \in {"part_000", "part_001", "part_004"}
    /\ Status(200) /\ hist # <<>> /\ Structured(LastOut)

\* C8 as stated: a member is copied when it is a string and replaced by its
\* default when it is absent, null or not a string
CopiedOrDefault(x, d) == IF x.t = "string" THEN x ELSE PStr(d)

\* C8 amended: a member is copied when it is a non-empty string, replaced by
\* its default when it is absent, null or any other falsy value ("", 0), and
\* replaced by its String() conversion when it is a truthy non-string
CopiedConvertedOrDefault(x, d) ==
    IF x.t = "string" /\ x.str # "" THEN x
    ELSE IF x.t \in {"undefined", "null"} \/ x = PStr("") \/ x = PNum0 THEN PStr(d)
    ELSE PStr(x.str)

\* C8 as stated: the normaliser copies each of inputLanguage, improved and
\* translation when it is a string and replaces it by its default ("Unknown",
\* "", "") when it is absent, null or not a string.
C8_CopyStringsElseDefault ==
    NormalizedReply =>
        /\ resp.body.kind = "result"
        /\ resp.body.inputLanguage = CopiedOrDefault(LastOut.val.inputLanguage, "Unknown")
        /\ resp.body.improved = CopiedOrDefault(LastOut.val.improved, "")
        /\ resp.body.translation = CopiedOrDefault(LastOut.val.translation, "")

\* C8 amended: the normaliser copies each member when it is a non-empty
\* string, replaces it by its default ("Unknown", "", "") when it is absent,
\* null or otherwise falsy, and by its String() conversion when it is a truthy
\* non-string; { improved: "x" } yields { "Unknown", "x", "" }.
C8_CopyConvertOrDefault ==
    NormalizedReply =>
        /\ resp.body.kind = "result"
        /\ resp.body.inputLanguage =
                CopiedConvertedOrDefault(LastOut.val.inputLanguage, "Unknown")
        /\ resp.body.improved = CopiedConvertedOrDefault(LastOut.val.improved, "")
        /\ resp.body.translation = CopiedConvertedOrDefault(LastOut.val.translation, "")

\* the payload { improved: "x" } normalised by part_004
C8_Witness ==
    /\ variant = "part_004" /\ NormalizedReply
    /\ LastOut.val = ParsedObject(PUndef, PStr("x"), PUndef)
    /\ resp.body = ResultBody(PStr("Unknown"), PStr("x"), PStr(""))

\* C9 as stated: every 200 response of part_000, part_001, part_004 and the two
\* handlers of functions/api/gemini.js has a body whose inputLanguage,
\* improved and translation are present and are strings.
C9_ThreeStringFields ==
    (/\ variant \in {"part_000", "part_001", "part_004", "api_gemini_1", "api_gemini_2"}
     /\ Status(200))
    => /\ resp.body.kind = "result"
       /\ resp.body.inputLanguage.t = "string"
       /\ resp.body.improved.t = "string"
       /\ resp.body.translation.t = "string"

\* a reply that is a failure by its transport, status, body or text
FailedReply(out) ==
    \/ out.kind # "http" \/ out.status < 200 \/ out.status > 299
    \/ ~out.jsonok \/ out.txt \in {"empty", "bad"}

\* the configured models of a chain handler, in order
ChainOf(v) == IF v = "part_004" THEN MODELS ELSE <<PRIMARY_MODEL, FALLBACK_MODEL>>

\* the body a chain handler builds from a parsed payload
CarriedBody(v, val) ==
    IF v = "part_004"
    THEN ResultBody(StringOr(val.inputLanguage, "Unknown"), StringOr(val.improved, ""),
                    StringOr(val.translation, ""))
    ELSE ResultBody(val.inputLanguage, val.improved, val.translation)

\* C10 as stated: in the chain handlers (part_004, part_003), for replies that
\* are each a failure or a parsed object, the response is 502 if and only if
\* every configured model was called and failed; otherwise it is 200 and
\* carries the payload of the first model, in list order, that succeeded.
C10_502IffAllFailed ==
    (/\ variant \in {"part_004", "part_003"}
     /\ pc = "done" /\ hist # <<>>
     /\ \A i \in 1..Len(hist) : FailedReply(hist[i].out) \/ Structured(hist[i].out))
    => /\ Len(hist) <= Len(ChainOf(variant))
       /\ \A i \in 1..Len(hist) : hist[i].model = ChainOf(variant)[i]
       /\ resp.status = 502 <=>
            /\ Len(hist) = Len(ChainOf(variant))
            /\ \A i \in 1..Len(hist) : FailedReply(hist[i].out)
       /\ resp.status # 502 =>
            /\ resp.status = 200
            /\ Structured(LastOut)
            /\ \A i \in 1..(Len(hist) - 1) : FailedReply(hist[i].out)
            /\ resp.body = CarriedBody(variant, LastOut.val)

\* a call answered with a non-2xx status
HttpFailure(out) == out.kind = "http" /\ (out.status < 200 \/ out.status > 299)

\* upstream failures that differ in their status code and in their body
OtherFailures ==
    {HttpError(st, code, j) : st \in {400, 429, 500, 503}, code \in {0, 429}, j \in BOOLEAN}

\* the response of handler v to request r when its last upstream call ends
\* with out
ResponseTo(v, r, out) ==
    IF v = "part_000" THEN finish_part000(r, out)
    ELSE IF v = "api_gemini_1" THEN finish_api1(r, out)
    ELSE final_part003(fetchWithTimeout(out))

\* C11 as stated: in part_000, the first handler of functions/api/gemini.js and
\* part_003, the response to a request whose upstream call failed with a
\* non-2xx status is the same response for every other status code and error
\* body of that failure.
C11_FailureDetailHidden ==
    (/\ variant \in {"part_000", "api_gemini_1", "part_003"}
     /\ pc = "done" /\ hist # <<>> /\ HttpFailure(LastOut))
    => \A out \in OtherFailures : ResponseTo(variant, req, out) = resp

\* the allow-list check of handler v on the Origin of request r
PassedOriginCheck(v, r) ==
    LET origin == GetOrEmpty(r.origin)
    IN  IF v = "part_000" THEN origin \in ORIGIN_ALLOW
        ELSE \/ origin = HttpsOf(GetOrEmpty(r.host))
             \/ origin = ProdOrigin
             \/ EndsWithProdSuffix(origin)

\* C12 as stated: in the handlers that compute CORS headers, a response's
\* Access-Control-Allow-Origin, when it has a value, is the request's own
\* Origin, which passed the allow-list check; it is never `*`.
C12_AllowOriginIsValidatedOrigin ==
    (/\ variant \in {"part_000", "part_001", "part_004", "api_gemini_1", "api_gemini_2"}
     /\ pc = "done"
     /\ resp.acao.present /\ resp.acao.val # EmptyStr)
    => /\ resp.acao.val # Star
       /\ req.origin.present /\ resp.acao.val = req.origin.val
       /\ PassedOriginCheck(variant, req)

\* the checks of part_000's onRequestPost, each stated on the request, on the
\* bucket that rateLimit found and on the upstream's reply
OriginDisallowed(r) ==
    r.origin.present /\ r.origin.val # EmptyStr /\ r.origin.val \notin ORIGIN_ALLOW

BucketEmpty(l) == l.reached /\ Min(RATE_LIMIT_capacity, l.tokens + l.refill) <= 0

UpstreamFailed(h) ==
    h # <<>> /\ LET out == h[Len(h)].out
                IN  out.kind # "http" \/ out.status < 200 \/ out.status > 299

\* C13: in part_000's onRequestPost the first check that fails decides the
\* status: disallowed origin 403, then non-POST method 405, then empty bucket
\* 429, then a Content-Type that does not declare JSON 415, then an unparseable
\* body 400, and, for a request that passed the text checks, missing key 500,
\* then a failed, timed-out or non-2xx upstream call 502; a request with a
\* missing key never causes an upstream call.
C13_FirstFailingCheckDecides ==
    (variant = "part_000" /\ pc \in {"fetch", "done"} /\ req.method # "OPTIONS")
    => /\ ~req.key => NoUpstreamCall
       /\ pc = "done" =>
            IF OriginDisallowed(req) THEN resp.status = 403
            ELSE IF req.method # "POST" THEN resp.status = 405
            ELSE IF BucketEmpty(lim) THEN resp.status = 429
            ELSE IF ~DeclaresJson(req.ct) THEN resp.status = 415
            ELSE IF req.body.kind = "badjson" THEN resp.status = 400
            ELSE IF textChecks_part000(req.body, NoHeader) # NoResp
            THEN resp.status \in {400, 413}
            ELSE IF ~req.key THEN resp.status = 500
            ELSE IF UpstreamFailed(hist) THEN resp.status = 502
            ELSE resp.status \notin {403, 405, 429, 415, 500}

\* a request that fails several checks at once (empty bucket, Content-Type, key)
\* is answered by the first of them
C13_Witness ==
    /\ variant = "part_000" /\ Status(429)
    /\ ~DeclaresJson(req.ct) /\ ~req.key /\ BucketEmpty(lim)

\* C14: sanitizeUserText is idempotent: given its own result, it returns it
\* unchanged.
C14_SanitizeIdempotent ==
    Len(clean) = 2 => clean[2] = clean[1]

\* a string that the first application changed, in each of its three steps
C14_Witness ==
    /\ Len(clean) = 2 /\ clean[1] # <<>>
    /\ NFKC(given) # given
    /\ ReplaceUnsafe(NFKC(given)) # NFKC(given)
    /\ clean[1] # ReplaceUnsafe(NFKC(given))

\* a 2xx reply with a JSON body whose text is empty or is not parseable JSON
EmptyOrUnparseable(out) ==
    /\ out.kind = "http" /\ out.status >= 200 /\ out.status <= 299
    /\ out.jsonok /\ out.txt \in {"empty", "bad"}

RecoversLocally == variant \in {"part_000", "api_gemini_1"}

\* C15 as stated: when the upstream answers 2xx with an empty or unparseable
\* reply text, part_000 and the first handler of functions/api/gemini.js answer
\* 200 with { inputLanguage: "Unknown", improved: "", translation: "" }.
C15_DefaultFilledResult ==
    (RecoversLocally /\ pc = "done" /\ hist # <<>> /\ EmptyOrUnparseable(LastOut))
    => /\ resp.status = 200
       /\ resp.body = ResultBody(PStr("Unknown"), PStr(""), PStr(""))

\* C15 amended: they answer 200 with inputLanguage "Unknown" and translation
\* ""; improved is "" in the first handler of functions/api/gemini.js, and in
\* part_000 it is the reply text as it came ("" when the text is empty).
C15_DefaultOrReplyText ==
    (RecoversLocally /\ pc = "done" /\ hist # <<>> /\ EmptyOrUnparseable(LastOut))
    => /\ resp.status = 200
       /\ resp.body = ResultBody(PStr("Unknown"),
                                 PStr(IF variant = "part_000" THEN LastOut.raw ELSE ""),
                                 PStr(""))

\* part_000 answers an unparseable reply text with that text in `improved`
C15_Witness ==
    /\ variant = "part_000" /\ Status(200) /\ hist # <<>>
    /\ LastOut.txt = "bad" /\ LastOut.raw # ""
    /\ resp.body.improved = PStr(LastOut.raw)

\* the statuses of the error taxonomy, and 200
TaxonomyStatuses == {200, 400, 403, 405, 413, 415, 429, 500, 502}

\* C16 as stated: for every POST request whose body parses as JSON and every
\* upstream reply, the handler ends by returning a response whose status is
\* one of the taxonomy; it never ends with an uncaught exception.
C16_AlwaysTaxonomyResponse ==
    (pc = "done" /\ req.method = "POST" /\ req.body.kind # "badjson")
    => /\ resp.body.kind # "uncaught"
       /\ resp.status \in TaxonomyStatuses

\* C17: whatever the clock does between the calls of rateLimit, every bucket
\* holds at least 0 and at most `capacity` tokens.
C17_TokensWithinBounds ==
    \A ip \in IPs :
        ipBuckets[ip].present
        => ipBuckets[ip].tokens >= 0 /\ ipBuckets[ip].tokens <= RATE_LIMIT_capacity

\* rateLimit finds an empty bucket while the clock is behind the last refill
C17_Witness ==
    /\ lim.reached /\ lim.refill < 0 /\ lim.tokens = 0
    /\ ipBuckets[lim.ip].tokens = 0

\* the request that reached rateLimit was admitted
Admitted == lim.reached /\ ~(pc = "done" /\ resp.status = 429)

\* the tokens of the bucket after the refill step of the call
PostRefill(l) ==
    IF l.refill > 0 THEN Min(RATE_LIMIT_capacity, l.tokens + l.refill) ELSE l.tokens

\* C18: rateLimit admits exactly when the bucket holds more than 0 tokens after
\* the refill step, and then takes exactly one token; when it rejects, the
\* bucket keeps the tokens it had after the refill step.
C18_AdmitIffTokenThenTakeOne ==
    lim.reached
    => /\ Admitted <=> PostRefill(lim) > 0
       /\ ipBuckets[lim.ip].tokens =
            IF Admitted THEN PostRefill(lim) - 1 ELSE PostRefill(lim)

\* a call that refilled an empty bucket and took one of the new tokens
C18_Witness ==
    /\ lim.reached /\ lim.tokens = 0 /\ lim.refill > 0 /\ Admitted
    /\ ipBuckets[lim.ip].tokens = PostRefill(lim) - 1

\* C19 as stated: each call of rateLimit brings the bucket to min(capacity,
\* tokens + floor(elapsedMinutes * refillPerMinute)) tokens before it admits or
\* rejects; lastRefillMs changes only in a call whose floor is greater than 0,
\* and a call with a zero refill leaves it unchanged, admitted or rejected.
C19_GainsFloorEachCall ==
    lim.reached
    => /\ ipBuckets[lim.ip].tokens =
            Min(RATE_LIMIT_capacity, lim.tokens + lim.refill)
                - (IF Admitted THEN 1 ELSE 0)
       /\ ipBuckets[lim.ip].lastRefillMs # lim.last => lim.refill > 0
       /\ lim.refill = 0 => ipBuckets[lim.ip].lastRefillMs = lim.last

\* C19 amended: a call whose floor is greater than 0 brings the bucket to
\* min(capacity, tokens + floor) tokens and sets lastRefillMs to the time of
\* the call; a call whose floor is 0 or negative (the clock behind the last
\* refill) leaves both the tokens and lastRefillMs as the refill step found
\* them, whether the request is then admitted or rejected.
C19_RefillOnlyWhenPositive ==
    lim.reached
    => /\ ipBuckets[lim.ip].tokens = PostRefill(lim) - (IF Admitted THEN 1 ELSE 0)
       /\ lim.refill > 0 => ipBuckets[lim.ip].lastRefillMs = now
       /\ lim.refill <= 0 => ipBuckets[lim.ip].lastRefillMs = lim.last

\* a call made while the clock is behind the last refill: the floor is
\* negative, the request is admitted, the stamp stays
C19_Witness ==
    /\ lim.reached /\ lim.refill < 0 /\ Admitted
    /\ ipBuckets[lim.ip].tokens = lim.tokens - 1
    /\ ipBuckets[lim.ip].lastRefillMs = lim.last /\ now < lim.last

\* the concurrent requests of ip that rateLimit admitted
AdmittedTasks(ip) ==
    {i \in 1..MaxTasks :
        tasks[i].pc # "new" /\ tasks[i].admitted /\ getClientIp(tasks[i].req) = ip}

\* C20: with handlers interleaving at every await and no refill, no token
\* update is lost: the bucket of an ip holds `capacity` less one token for each
\* request admitted, and at most `capacity` requests of one ip are admitted.
C20_NoLostUpdate ==
    tasks # <<>>
    => \A ip \in IPs :
        LET n == served[ip] + Cardinality(AdmittedTasks(ip))
        IN  /\ n <= RATE_LIMIT_capacity
            /\ ipBuckets[ip] = BucketAfter(n)

\* three requests of one ip met a bucket with two tokens: two were admitted and
\* wait at different awaits, the third has been answered 429
C20_Witness ==
    /\ tasks # <<>>
    /\ \E ip \in IPs :
        /\ served[ip] = RATE_LIMIT_capacity - 2
        /\ \E i, j, k \in 1..MaxTasks :
            /\ {i, j} = AdmittedTasks(ip)
            /\ tasks[i].pc = "fetch" /\ tasks[j].pc = "body"
            /\ tasks[k].pc = "done" /\ tasks[k].resp.status = 429
            /\ getClientIp(tasks[k].req) = ip

\* the bucket of the request's client held no token, and none was due, when the
\* request arrived
EmptyOnArrival ==
    IF lim.reached THEN BucketEmpty(lim)
    ELSE LET b == ipBuckets[getClientIp(req)]
         IN  b.present /\ b.tokens <= 0 /\ RefillOf(b, now) <= 0

\* C21 as stated: in part_000 the limiter decides before any check of the
\* request validator: a client whose bucket is empty gets 429 whatever the
\* method, Content-Type or body, and a request rejected by a validator check
\* (405, 415, 400, 413) has passed the limiter.
C21_LimiterBeforeValidator ==
    (/\ variant = "part_000" /\ pc = "done"
     /\ req.method # "OPTIONS" /\ ~OriginDisallowed(req))
    => /\ EmptyOnArrival => resp.status = 429
       /\ resp.status \in {405, 415, 400, 413} => lim.reached

RetryHandler == variant \in {"part_001", "api_gemini_2"}

\* upstream calls of this request to the model of callGemini, ended or in flight
CallsToModel ==
    Cardinality({i \in 1..Len(hist) : hist[i].model = ModelOf(variant)})
        + (IF inflight = ModelOf(variant) THEN 1 ELSE 0)

\* C22 as stated: whatever the upstream answers, one invocation of callGemini
\* issues at most 3 upstream calls to its model.
C22_AtMostThreeCalls ==
    RetryHandler => CallsToModel <= 3

\* a reply whose HTTP status is 429 or 5xx
RetryableStatus(out) ==
    out.kind = "http" /\ (out.status = 429 \/ (out.status >= 500 /\ out.status <= 599))

\* the replies of this request's calls that the status alone makes retryable
RetryableReplies == {i \in 1..Len(hist) : RetryableStatus(hist[i].out)}

\* C23 as stated: callGemini classifies a non-2xx reply as retryable exactly
\* when its HTTP status is 429 or 5xx, whatever its body says: its counter
\* `attempt`, which it increments for each reply it classifies retryable,
\* counts the 429 and 5xx replies.
C23_RetryableByStatus ==
    (RetryHandler /\ pc # "idle") => attempt = Cardinality(RetryableReplies)

\* a fatal failure: a status that is not 2xx, 429 or 5xx, or a 2xx reply with
\* no extractable text, or a 2xx reply whose text does not parse
FatalFailure(out) ==
    /\ out.kind = "http"
    /\ IF out.status >= 200 /\ out.status <= 299
       THEN ~out.jsonok \/ out.txt \in {"empty", "bad"}
       ELSE ~RetryableStatus(out)

\* C24 as stated: in the retry handlers, after a fatal failure of the model no
\* further call is made to that model within the request.
C24_NoCallAfterFatal ==
    RetryHandler
    => \A i \in 1..Len(hist) :
        (hist[i].model = ModelOf(variant) /\ FatalFailure(hist[i].out))
        => /\ inflight # ModelOf(variant)
           /\ \A j \in (i + 1)..Len(hist) : hist[j].model # ModelOf(variant)

\* C25 as stated: in the retry handlers every re-attempt that follows a 429 or
\* 5xx reply or a timeout is preceded by a backoff wait: the step that issues
\* the next call to the model is the end of a wait.
C25_BackoffBeforeRetry ==
    [][(/\ RetryHandler
        /\ pc' = "fetch" /\ hist' # <<>>
        /\ LET last == hist'[Len(hist')].out
           IN  RetryableStatus(last) \/ last.kind = "timeout")
       => pc = "backoff"]_vars

ChainHandler == variant \in {"part_004", "part_003"}

\* the calls of this request, ended or in flight, in the order they were made
CalledModels ==
    [i \in 1..Len(hist) |-> hist[i].model]
        \o (IF inflight = "none" THEN <<>> ELSE <<inflight>>)

\* C26 as stated: in the chain handlers the models are called one at a time in
\* the configured order, each at most once; a call begins only after the call
\* before it has ended in failure, and no call is made after a model has
\* succeeded (has answered 2xx with a text that parses to a JSON object).
C26_OrderedOneAtATime ==
    ChainHandler
    => /\ Len(CalledModels) <= Len(ChainOf(variant))
       /\ \A i \in 1..Len(CalledModels) : CalledModels[i] = ChainOf(variant)[i]
       /\ \A i \in 1..Len(hist) :
            Structured(hist[i].out) => (i = Len(hist) /\ inflight = "none")

\* C27: every handler has disarmed the timeout timer of each upstream attempt
\* that has ended, by a reply, a network failure or a timeout: while an attempt
\* is in flight only its own timer is pending, and when the handler returns its
\* response no timer armed by the request is pending.
C27_TimersDisarmed == pc # "idle" => timers = Armed(0, pc)

\* C28: every upstream attempt of part_000 and part_004 ends, also when the
\* upstream never sends headers or stalls while sending the body, so that a
\* request with a call in flight eventually receives its response.
C28_AttemptEndsAndAnswers == (inflight # "none") ~> (pc = "done")

\* C29: while an upstream call of part_000 is in flight or has been made, the
\* text it embeds, the output of sanitizeUserText on the raw text, is non-empty
\* and at most MAX_CHARS characters long, also when normalisation made the
\* text longer than the raw text.
UpstreamCalled_part000 == variant = "part_000" /\ ~NoUpstreamCall
C29_EmbeddedTextBounded ==
    UpstreamCalled_part000 =>
        /\ payloadText_part000(req.body) # <<>>
        /\ Length(payloadText_part000(req.body)) <= MAX_CHARS
C29_Witness ==
    /\ variant = "part_000" /\ pc = "fetch"
    /\ Length(payloadText_part000(req.body)) = MAX_CHARS
    /\ Length(textRaw_part000(req.body)) < MAX_CHARS

\* C30: when every upstream call of a retry handler gets an answer, a request
\* whose upstream call is in flight eventually gets its response: callGemini
\* returns or throws and the handler answers.
C30_RetryHandlerAnswers == (pc = "fetch") ~> (pc = "done")

RECURSIVE SumOver(_, _)
SumOver(f, S) ==
    IF S = {} THEN 0
    ELSE LET t == CHOOSE x \in S : TRUE IN f[t] + SumOver(f, S \ {t})

\* the calls rateLimit(ip) that returned true at a time between s and e
AdmittedWithin(ip, s, e) ==
    SumOver(admits.at[ip], {t \in Times : s <= t /\ t <= e})

\* capacity + floor(T in minutes * refillPerMinute), T in ms
WindowBound(T) ==
    RATE_LIMIT_capacity + (T * RATE_LIMIT_refillPerMinute) \div MsPerMinute

\* C31: under a clock that never goes back, for every client IP and every
\* interval [s, e], rateLimit admits at most capacity + floor(minutes of
\* (e - s) * refillPerMinute) requests of that IP within the interval.
C31_WindowBound ==
    \A ip \in IPs : \A s \in Times : \A e \in Times :
        s <= e => AdmittedWithin(ip, s, e) <= WindowBound(e - s)
C31_Witness ==
    \E ip \in IPs : \E s \in Times : \E e \in Times :
        /\ 0 < s /\ s < e
        /\ AdmittedWithin(ip, s, e) = WindowBound(e - s)
        /\ admits.at[ip][e] > 0

\* a request has just been received and has passed the origin and method checks
PassedOriginAndMethod ==
    pc = "idle" /\ req' # NoReq /\ req'.method = "POST" /\ ~OriginDisallowed(req')

\* C32: in every step of part_000, the bucket table changes only when a
\* request is received that passes the origin and method checks; a request
\* answered 403 or 405 leaves the table as it was; a bucket that appears is
\* that of the request's IP, created with capacity tokens at the current time
\* and charged for that request; no bucket disappears.
C32_BucketFrame ==
    [][/\ ipBuckets' # ipBuckets => PassedOriginAndMethod
       /\ (pc = "idle" /\ resp'.status \in {403, 405}) => ipBuckets' = ipBuckets
       /\ \A ip \in IPs :
            /\ ipBuckets[ip].present => ipBuckets'[ip].present
            /\ (~ipBuckets[ip].present /\ ipBuckets'[ip].present) =>
                    /\ ip = getClientIp(req')
                    /\ ipBuckets'[ip] = Bucket(RATE_LIMIT_capacity - 1, now)]_vars
C32_Witness ==
    /\ pc = "done" /\ resp.status \in {403, 405}
    /\ ~ipBuckets[getClientIp(req)].present
    /\ \E ip \in IPs : ipBuckets[ip].present

\* the buckets that a step changes
ChangedBuckets == {ip \in IPs : ipBuckets'[ip] # ipBuckets[ip]}

\* the request carries neither CF-Connecting-IP nor x-forwarded-for
NoAddressHeader(r) == r.cf = "" /\ r.xff = <<>>

\* C33: a step of part_000 changes at most the bucket of the address the
\* request carries: that of CF-Connecting-IP when it is given, else that of
\* the first entry of x-forwarded-for; a request that carries neither header
\* and reaches the limiter is counted against the bucket "0.0.0.0", which is
\* left as a rateLimit call for "0.0.0.0" leaves it, and changes no other.
C33_PerIpBuckets ==
    [][/\ Cardinality(ChangedBuckets) <= 1
       /\ (pc = "idle" /\ req'.cf # "") => ChangedBuckets \subseteq {req'.cf}
       /\ (pc = "idle" /\ req'.cf = "" /\ req'.xff # <<>> /\ Head(req'.xff) # "") =>
            ChangedBuckets \subseteq {Head(req'.xff)}
       /\ (pc = "idle" /\ NoAddressHeader(req') /\ resp'.status \in {429, 415}) =>
            /\ ChangedBuckets \subseteq {"0.0.0.0"}
            /\ ipBuckets'["0.0.0.0"] = rateLimit(ipBuckets, "0.0.0.0", now).buckets["0.0.0.0"]]_vars
C33_Witness ==
    /\ pc = "done" /\ NoAddressHeader(req) /\ req.origin = Header(ProdOrigin)
    /\ ipBuckets["0.0.0.0"] = Bucket(RATE_LIMIT_capacity - 2, 0)
    /\ ipBuckets[ClientIp] = Bucket(RATE_LIMIT_capacity - 1, 0)

====
